---- MODULE Spec2Model ----
(***************************************************************************)
(* A model of src/main.ts of ai-codereviewer: the run of main() from the   *)
(* pull-request event to the review submission, with the response          *)
(* interpreter (getAIResponse) and the comment mapper (createComment)      *)
(* computed on the characters of the model's response text.                *)
(*                                                                         *)
(* A text is a sequence of one-character strings.  A JavaScript value is a *)
(* record tagged by its field t:                                           *)
(*   undefined, null, bool (b), num (k, neg, m, e), str (s),               *)
(*   arr (items), obj (members: a sequence of [key, val] in source order). *)
(* A number is an IEEE 754 double: NaN (k = "nan"), an infinity            *)
(* (k = "inf") or the finite (-1)^neg * m * 10^e (k = "fin"), written in   *)
(* full: m is the sequence of the decimal digits of the double's exact     *)
(* value, without leading or trailing zeros, and is <<>> for +0 and -0.    *)
(* A character outside printable ASCII, tab, line feed, form feed and      *)
(* carriage return is named by its escape in lower case, "\\u00a0".        *)
(***************************************************************************)
EXTENDS Integers, Sequences, FiniteSets, TLC

----------------------------------------------------------------------------
(* Characters *)

Digits == <<"0", "1", "2", "3", "4", "5", "6", "7", "8", "9">>

HexLower == <<"0", "1", "2", "3", "4", "5", "6", "7", "8", "9",
              "a", "b", "c", "d", "e", "f">>

HexUpper == <<"0", "1", "2", "3", "4", "5", "6", "7", "8", "9",
              "A", "B", "C", "D", "E", "F">>

\* The printable ASCII characters, code units 32 .. 126 in order.  The grave
\* accent (code unit 96) cannot be written in a string of this language and is
\* named by its escape.
Ascii == <<" ", "!", "\"", "#", "$", "%", "&", "'", "(", ")", "*", "+", ",",
           "-", ".", "/", "0", "1", "2", "3", "4", "5", "6", "7", "8", "9",
           ":", ";", "<", "=", ">", "?", "@", "A", "B", "C", "D", "E", "F",
           "G", "H", "I", "J", "K", "L", "M", "N", "O", "P", "Q", "R", "S",
           "T", "U", "V", "W", "X", "Y", "Z", "[", "\\", "]", "^", "_", "\\u0060",
           "a", "b", "c", "d", "e", "f", "g", "h", "i", "j", "k", "l", "m",
           "n", "o", "p", "q", "r", "s", "t", "u", "v", "w", "x", "y", "z",
           "{", "|", "}", "~">>

\* White space of the JSON grammar.
JSONWhiteSpace == {" ", "\t", "\n", "\r"}

\* White space and line terminators removed by String.prototype.trim and
\* skipped by the string-to-number conversion: tab, vertical tab, form feed,
\* space, no-break space, the byte order mark, the space separators of
\* Unicode, and line feed, carriage return, line and paragraph separator.
JSWhiteSpace ==
    {"\t", "\\u000b", "\f", " ", "\\u00a0", "\\ufeff",
     "\\u1680", "\\u2000", "\\u2001", "\\u2002", "\\u2003", "\\u2004",
     "\\u2005", "\\u2006", "\\u2007", "\\u2008", "\\u2009", "\\u200a",
     "\\u202f", "\\u205f", "\\u3000",
     "\n", "\r", "\\u2028", "\\u2029"}

\* The code units below U+0020, which a JSON string literal cannot hold
\* unescaped.
ControlCharacters ==
    {"\\u0000", "\\u0001", "\\u0002", "\\u0003", "\\u0004", "\\u0005",
     "\\u0006", "\\u0007", "\\u0008", "\t", "\n", "\\u000b", "\f", "\r",
     "\\u000e", "\\u000f", "\\u0010", "\\u0011", "\\u0012", "\\u0013",
     "\\u0014", "\\u0015", "\\u0016", "\\u0017", "\\u0018", "\\u0019",
     "\\u001a", "\\u001b", "\\u001c", "\\u001d", "\\u001e", "\\u001f"}

IsDigit(c) == \E d \in 1..10 : Digits[d] = c

DigitVal(c) == (CHOOSE d \in 1..10 : Digits[d] = c) - 1

IsHexDigit(c) == \E d \in 1..16 : HexLower[d] = c \/ HexUpper[d] = c

HexVal(c) == (CHOOSE d \in 1..16 : HexLower[d] = c \/ HexUpper[d] = c) - 1

\* The character at position i of s, or "" past either end.
At(s, i) == IF i >= 1 /\ i <= Len(s) THEN s[i] ELSE ""

StartsWith(s, i, lit) ==
    /\ i >= 1
    /\ i + Len(lit) - 1 <= Len(s)
    /\ SubSeq(s, i, i + Len(lit) - 1) = lit

\* F applied to the value v: names a value that is used more than once.  The
\* test makes the evaluation compute v before it enters F.
Bind(v, F(_)) == IF v = v THEN F(v) ELSE F(v)

----------------------------------------------------------------------------
(* Natural numbers of any size *)

\* A natural number is the sequence of its decimal digits (0 .. 9), most
\* significant first, without leading zeros; <<>> is zero.  The operators
\* that run over the digits split their range in two, so that the depth of
\* their evaluation grows with the logarithm of the length.

Zeros(n) == [i \in 1..n |-> 0]

RECURSIVE FirstDiff(_, _, _, _)
\* The first position in lo .. hi where a and b differ, 0 when there is
\* none.
FirstDiff(a, b, lo, hi) ==
    IF lo > hi THEN 0
    ELSE IF lo = hi THEN (IF a[lo] # b[lo] THEN lo ELSE 0)
    ELSE Bind(FirstDiff(a, b, lo, (lo + hi) \div 2), LAMBDA i :
             IF i # 0 THEN i
             ELSE FirstDiff(a, b, (lo + hi) \div 2 + 1, hi))

RECURSIVE LastDiff(_, _, _, _)
\* The last position in lo .. hi where a and b differ, 0 when there is none.
LastDiff(a, b, lo, hi) ==
    IF lo > hi THEN 0
    ELSE IF lo = hi THEN (IF a[lo] # b[lo] THEN lo ELSE 0)
    ELSE Bind(LastDiff(a, b, (lo + hi) \div 2 + 1, hi), LAMBDA i :
             IF i # 0 THEN i
             ELSE LastDiff(a, b, lo, (lo + hi) \div 2))

\* The first position whose digit is not 0, Len(a) + 1 when there is none.
FirstNonZero(a) ==
    Bind(FirstDiff(a, Zeros(Len(a)), 1, Len(a)), LAMBDA i :
        IF i = 0 THEN Len(a) + 1 ELSE i)

\* The last position whose digit is not 0, 0 when there is none.
LastNonZero(a) == LastDiff(a, Zeros(Len(a)), 1, Len(a))

\* The digits a without their leading zeros.
NatOf(a) == SubSeq(a, FirstNonZero(a), Len(a))

RECURSIVE NatOfInt(_)
\* The digits of the integer n >= 0.
NatOfInt(n) == IF n = 0 THEN <<>> ELSE Append(NatOfInt(n \div 10), n % 10)

\* a < b
NatLess(a, b) ==
    \/ Len(a) < Len(b)
    \/ /\ Len(a) = Len(b)
       /\ Bind(FirstDiff(a, b, 1, Len(a)), LAMBDA i : i # 0 /\ a[i] < b[i])

NatOdd(a) == a # <<>> /\ a[Len(a)] % 2 = 1

\* 2 * a: the carry into a position is 1 when the digit after it is 5 or
\* more.
NatDouble(a) ==
    (IF a # <<>> /\ a[1] >= 5 THEN <<1>> ELSE <<>>)
    \o [i \in 1..Len(a) |->
           (2 * a[i] + (IF i < Len(a) /\ a[i + 1] >= 5 THEN 1 ELSE 0)) % 10]

\* 2 * a + 1
NatDoublePlusOne(a) ==
    IF a = <<>> THEN <<1>>
    ELSE Bind(NatDouble(a), LAMBDA d : [d EXCEPT ![Len(d)] = @ + 1])

\* a \div 2: a position receives 10 from an odd digit before it.
NatHalf(a) ==
    NatOf([i \in 1..Len(a) |->
              (a[i] + (IF i > 1 /\ a[i - 1] % 2 = 1 THEN 10 ELSE 0))
              \div 2])

RECURSIVE AddDigits(_, _, _, _, _)
\* The digits lo .. hi of a + b for a and b of one length, given the carry
\* into position hi, and the carry out of position lo.
AddDigits(a, b, lo, hi, carry) ==
    IF lo = hi
    THEN [d |-> <<(a[lo] + b[lo] + carry) % 10>>,
          carry |-> (a[lo] + b[lo] + carry) \div 10]
    ELSE Bind(AddDigits(a, b, (lo + hi) \div 2 + 1, hi, carry), LAMBDA r :
         Bind(AddDigits(a, b, lo, (lo + hi) \div 2, r.carry), LAMBDA l :
             [d |-> l.d \o r.d, carry |-> l.carry]))

\* a + b
NatAdd(a, b) ==
    Bind(IF Len(a) > Len(b) THEN Len(a) ELSE Len(b), LAMBDA n :
        IF n = 0 THEN <<>>
        ELSE Bind(AddDigits(Zeros(n - Len(a)) \o a, Zeros(n - Len(b)) \o b,
                            1, n, 0), LAMBDA r :
                 (IF r.carry = 1 THEN <<1>> ELSE <<>>) \o r.d))

RECURSIVE SubDigits(_, _, _, _, _)
\* The digits lo .. hi of a - b for a and b of one length, given the borrow
\* out of position hi, and the borrow out of the position before lo.
SubDigits(a, b, lo, hi, borrow) ==
    IF lo = hi
    THEN [d |-> <<(a[lo] - b[lo] - borrow + 10) % 10>>,
          borrow |-> IF a[lo] - b[lo] - borrow < 0 THEN 1 ELSE 0]
    ELSE Bind(SubDigits(a, b, (lo + hi) \div 2 + 1, hi, borrow), LAMBDA r :
         Bind(SubDigits(a, b, lo, (lo + hi) \div 2, r.borrow), LAMBDA l :
             [d |-> l.d \o r.d, borrow |-> l.borrow]))

\* a - b for a >= b
NatSub(a, b) ==
    IF a = <<>> THEN <<>>
    ELSE NatOf(SubDigits(a, Zeros(Len(a) - Len(b)) \o b, 1, Len(a), 0).d)

RECURSIVE TimesPow2(_, _)
\* a * 2^n
TimesPow2(a, n) ==
    IF a = <<>> \/ n = 0 THEN a
    ELSE IF n = 1 THEN NatDouble(a)
    ELSE TimesPow2(TimesPow2(a, n \div 2), n - n \div 2)

RECURSIVE TimesPow5(_, _)
\* a * 5^n
TimesPow5(a, n) ==
    IF a = <<>> \/ n = 0 THEN a
    ELSE IF n = 1 THEN NatHalf(Append(a, 0))
    ELSE TimesPow5(TimesPow5(a, n \div 2), n - n \div 2)

----------------------------------------------------------------------------
(* JavaScript values *)

JUndefined == [t |-> "undefined"]

JNull == [t |-> "null"]

JBool(b) == [t |-> "bool", b |-> b]

JStr(s) == [t |-> "str", s |-> s]

JArr(items) == [t |-> "arr", items |-> items]

JObj(members) == [t |-> "obj", members |-> members]

NaN == [t |-> "num", k |-> "nan", neg |-> FALSE, m |-> <<>>, e |-> 0]

Infinity(neg) == [t |-> "num", k |-> "inf", neg |-> neg, m |-> <<>>, e |-> 0]

\* +0 or -0
Zero(neg) == [t |-> "num", k |-> "fin", neg |-> neg, m |-> <<>>, e |-> 0]

\* The finite number (-1)^neg * a * 10^e for digits a, in normal form.
JNum(neg, a, e) ==
    Bind(FirstNonZero(a), LAMBDA i :
    Bind(LastNonZero(a), LAMBDA j :
        IF j = 0 THEN Zero(neg)
        ELSE [t |-> "num", k |-> "fin", neg |-> neg,
              m |-> SubSeq(a, i, j), e |-> e + (Len(a) - j)]))

\* The number of an integer n of small size.
JInt(n) ==
    IF n < 0 THEN JNum(TRUE, NatOfInt(-n), 0) ELSE JNum(FALSE, NatOfInt(n), 0)

\* 2^53
Two53 == <<9, 0, 0, 7, 1, 9, 9, 2, 5, 4, 7, 4, 0, 9, 9, 2>>

\* A quotient u / v on its way into [2^52, 2^53): h is v * 2^52 and w is
\* v * 2^53, and u / v * 2^x is the number.  One step doubles v (x grows)
\* or u (x falls); x does not fall below -1074, the exponent of the
\* subnormal numbers.
ScaleUp(s) == ~NatLess(s.u, s.w)

ScaleDown(s) == s.x > -1074 /\ NatLess(s.u, s.h)

ScaleStep(s) ==
    IF ScaleUp(s)
    THEN [u |-> s.u, v |-> NatDouble(s.v), h |-> s.w, w |-> NatDouble(s.w),
          x |-> s.x + 1]
    ELSE IF ScaleDown(s)
    THEN [u |-> NatDouble(s.u), v |-> s.v, h |-> s.h, w |-> s.w,
          x |-> s.x - 1]
    ELSE s

RECURSIVE Scale(_, _)
\* s after n steps at most.
Scale(s, n) ==
    IF ~ScaleUp(s) /\ ~ScaleDown(s) THEN s
    ELSE IF n <= 1 THEN ScaleStep(s)
    ELSE Scale(Scale(s, n \div 2), n - n \div 2)

\* The bit n of r \div v, appended to q: t is v * 2^n and r < 2 * t.
QuotientStep(s) ==
    IF NatLess(s.r, s.t)
    THEN [q |-> NatDouble(s.q), r |-> s.r, t |-> NatHalf(s.t),
          n |-> s.n - 1]
    ELSE [q |-> NatDoublePlusOne(s.q), r |-> NatSub(s.r, s.t),
          t |-> NatHalf(s.t), n |-> s.n - 1]

RECURSIVE Quotient(_, _)
\* s after k bits at most, the last one being the bit 0.
Quotient(s, k) ==
    IF s.n < 0 THEN s
    ELSE IF k <= 1 THEN QuotientStep(s)
    ELSE Quotient(Quotient(s, k \div 2), k - k \div 2)

\* q + r / v rounded to the nearest integer, a tie to the even one.
RoundHalfEven(q, r, v) ==
    Bind(NatDouble(r), LAMBDA rr :
        IF NatLess(v, rr) \/ (~NatLess(rr, v) /\ NatOdd(q))
        THEN NatAdd(q, <<1>>)
        ELSE q)

\* The double (-1)^neg * q * 2^x for q <= 2^53 and x >= -1074: an infinity
\* from 2^1024 on.
Binary(neg, q, x) ==
    IF q = <<>> THEN Zero(neg)
    ELSE IF x > 971 \/ (x = 971 /\ ~NatLess(q, Two53)) THEN Infinity(neg)
    ELSE IF x >= 0 THEN JNum(neg, TimesPow2(q, x), 0)
    ELSE JNum(neg, TimesPow5(q, -x), x)

\* The double nearest to u / v for u > 0, a tie to the even significand:
\* the 53 bits of the scaled quotient, rounded.
NearestDouble(neg, u, v) ==
    Bind(TimesPow2(v, 52), LAMBDA h :
    Bind(Scale([u |-> u, v |-> v, h |-> h, w |-> NatDouble(h), x |-> 0],
               2200), LAMBDA s :
    Bind(Quotient([q |-> <<>>, r |-> s.u, t |-> s.h, n |-> 52], 53),
         LAMBDA d :
        Binary(neg, RoundHalfEven(d.q, d.r, s.v), s.x))))

\* The double nearest to (-1)^neg * a * 10^e for digits a.  Beyond 10^309
\* it is an infinity and below 10^-324 a zero; an integer below 2^53 is a
\* double.
ToDouble(neg, a, e) ==
    Bind(JNum(neg, a, e), LAMBDA n :
        IF n.m = <<>> THEN n
        ELSE IF Len(n.m) + n.e > 309 THEN Infinity(neg)
        ELSE IF Len(n.m) + n.e < -323 THEN Zero(neg)
        ELSE IF n.e >= 0 /\ Len(n.m) + n.e <= 16
                /\ NatLess(n.m \o Zeros(n.e), Two53) THEN n
        ELSE IF n.e >= 0 THEN NearestDouble(neg, n.m \o Zeros(n.e), <<1>>)
        ELSE NearestDouble(neg, n.m, <<1>> \o Zeros(- n.e)))

\* ToBoolean: what `if (v)` and `v || w` test.
Truthy(v) ==
    CASE v.t = "undefined" -> FALSE
      [] v.t = "null" -> FALSE
      [] v.t = "bool" -> v.b
      [] v.t = "num" -> ~(v.k = "nan" \/ (v.k = "fin" /\ v.m = <<>>))
      [] v.t = "str" -> Len(v.s) > 0
      [] OTHER -> TRUE

\* Reading a property of null or undefined throws a TypeError.
ThrowsOnGet(v) == v.t \in {"undefined", "null"}

RECURSIVE LastMember(_, _, _)
LastMember(members, key, i) ==
    IF i = 0 THEN JUndefined
    ELSE IF members[i].key = key THEN members[i].val
    ELSE LastMember(members, key, i - 1)

\* v.key for a value parsed from JSON and a key that no prototype defines:
\* the last member of that name of an object, undefined for everything else.
Get(v, key) ==
    IF v.t = "obj" THEN LastMember(v.members, key, Len(v.members))
    ELSE JUndefined

----------------------------------------------------------------------------
(* Decimal literals, shared by JSON.parse and Number() *)

RECURSIVE FirstNonDigit(_, _, _)
\* The first position in lo .. hi that holds no decimal digit, 0 when there
\* is none.
FirstNonDigit(s, lo, hi) ==
    IF lo > hi THEN 0
    ELSE IF lo = hi THEN (IF IsDigit(s[lo]) THEN 0 ELSE lo)
    ELSE Bind(FirstNonDigit(s, lo, (lo + hi) \div 2), LAMBDA i :
             IF i # 0 THEN i
             ELSE FirstNonDigit(s, (lo + hi) \div 2 + 1, hi))

\* The first position at or after i that holds no decimal digit.
DigitsEnd(s, i) ==
    Bind(FirstNonDigit(s, i, Len(s)), LAMBDA j :
        IF j = 0 THEN (IF i > Len(s) THEN i ELSE Len(s) + 1) ELSE j)

\* The decimal digits s[a] .. s[b-1] as a natural number with its leading
\* zeros.
DigitsOf(s, a, b) ==
    [k \in 1..(b - a) |-> DigitVal(s[a + k - 1])]

RECURSIVE IntOfNat(_, _)
\* The integer of the first n digits of a.
IntOfNat(a, n) == IF n = 0 THEN 0 ELSE IntOfNat(a, n - 1) * 10 + a[n]

\* The value of the exponent digits s[a] .. s[b-1], and 1000000 for any
\* value of seven digits or more: an exponent of that size decides the
\* result for every text of fewer characters.
ExponentVal(s, a, b) ==
    Bind(NatOf(DigitsOf(s, a, b)), LAMBDA n :
        IF Len(n) > 6 THEN 1000000 ELSE IntOfNat(n, Len(n)))

\* An unsigned decimal literal read at position i: integer digits s[i..a-1],
\* an optional "." with fraction digits s[a+1..b-1], an optional exponent
\* part with digits s[x..y-1] (x = 0 without one).
ScanDecimal(s, i) ==
    Bind(DigitsEnd(s, i), LAMBDA a :
    Bind(IF At(s, a) = "." THEN DigitsEnd(s, a + 1) ELSE a, LAMBDA b :
    Bind(IF At(s, b) \notin {"e", "E"} THEN 0
         ELSE IF At(s, b + 1) \in {"+", "-"} THEN b + 2 ELSE b + 1, LAMBDA x :
    Bind(IF x = 0 THEN b ELSE DigitsEnd(s, x), LAMBDA y :
        [intLen |-> a - i,
         leadZero |-> a - i > 1 /\ At(s, i) = "0",
         hasDot |-> b > a,
         fracLen |-> IF b > a THEN b - a - 1 ELSE 0,
         expOk |-> x = 0 \/ y > x,
         m |-> IF b > a THEN DigitsOf(s, i, a) \o DigitsOf(s, a + 1, b)
               ELSE DigitsOf(s, i, a),
         e |-> (IF x = 0 THEN 0
                ELSE IF At(s, b + 1) = "-" THEN - ExponentVal(s, x, y)
                ELSE ExponentVal(s, x, y))
               - (IF b > a THEN b - a - 1 ELSE 0),
         end |-> y]))))

----------------------------------------------------------------------------
(* JSON.parse *)

\* The result of reading one grammar element: whether it was read, its value
\* and the position after it.
Fail == [ok |-> FALSE, v |-> JUndefined, i |-> 0]

Read(v, i) == [ok |-> TRUE, v |-> v, i |-> i]

RECURSIVE SkipWS(_, _)
SkipWS(s, i) == IF At(s, i) \in JSONWhiteSpace THEN SkipWS(s, i + 1) ELSE i

\* The character a \uXXXX escape with code unit n denotes, its hex digits
\* being h: the character itself when printable ASCII or white space, and
\* otherwise a one-character name built from the escape in lower case.
CodeUnit(n, h) ==
    IF n >= 32 /\ n <= 126 THEN Ascii[n - 31]
    ELSE IF n = 9 THEN "\t"
    ELSE IF n = 10 THEN "\n"
    ELSE IF n = 13 THEN "\r"
    ELSE IF n = 12 THEN "\f"
    ELSE "\\u" \o HexLower[HexVal(h[1]) + 1] \o HexLower[HexVal(h[2]) + 1]
               \o HexLower[HexVal(h[3]) + 1] \o HexLower[HexVal(h[4]) + 1]

\* The code unit four hex digits h denote.
HexCode(h) ==
    ((HexVal(h[1]) * 16 + HexVal(h[2])) * 16 + HexVal(h[3])) * 16
    + HexVal(h[4])

\* The character a two-character escape \c denotes.
SimpleEscape(c) ==
    CASE c = "n" -> "\n"
      [] c = "t" -> "\t"
      [] c = "r" -> "\r"
      [] c = "f" -> "\f"
      [] c = "b" -> "\\u0008"
      [] OTHER -> c

RECURSIVE FirstBreak(_, _, _)
\* The first position in lo .. hi that holds a quote, a backslash or a
\* control character, 0 when there is none.
FirstBreak(s, lo, hi) ==
    IF lo > hi THEN 0
    ELSE IF lo = hi
    THEN (IF s[lo] \in {"\"", "\\"} \cup ControlCharacters THEN lo ELSE 0)
    ELSE Bind(FirstBreak(s, lo, (lo + hi) \div 2), LAMBDA j :
             IF j # 0 THEN j
             ELSE FirstBreak(s, (lo + hi) \div 2 + 1, hi))

RECURSIVE ParseStringBody(_, _, _)
\* The characters of a string literal from position i (after its opening
\* quote) to its closing quote, appended to acc: the characters before the
\* next quote, backslash or control character stand for themselves, and then
\* comes the closing quote or an escape.
ParseStringBody(s, i, acc) ==
    Bind(FirstBreak(s, i, Len(s)), LAMBDA j :
        IF j = 0 THEN Fail
        ELSE Bind(acc \o SubSeq(s, i, j - 1), LAMBDA run :
             IF s[j] = "\"" THEN Read(JStr(run), j + 1)
             ELSE IF s[j] \in ControlCharacters THEN Fail
             ELSE IF At(s, j + 1)
                         \in {"\"", "\\", "/", "b", "f", "n", "r", "t"}
             THEN ParseStringBody(s, j + 2,
                                  Append(run, SimpleEscape(At(s, j + 1))))
             ELSE IF /\ At(s, j + 1) = "u"
                     /\ \A k \in 2..5 : IsHexDigit(At(s, j + k))
             THEN Bind(SubSeq(s, j + 2, j + 5), LAMBDA h :
                      ParseStringBody(s, j + 6,
                                      Append(run, CodeUnit(HexCode(h), h))))
             ELSE Fail))

\* A JSON number at position i: -? (0 | [1-9][0-9]*) (.[0-9]+)? exponent?
ParseNumber(s, i) ==
    Bind(ScanDecimal(s, IF At(s, i) = "-" THEN i + 1 ELSE i), LAMBDA d :
        IF /\ d.intLen >= 1
           /\ ~d.leadZero
           /\ d.hasDot => d.fracLen >= 1
           /\ d.expOk
        THEN Read(ToDouble(At(s, i) = "-", d.m, d.e), d.end)
        ELSE Fail)

RECURSIVE ParseValue(_, _)
RECURSIVE ParseElements(_, _, _)
RECURSIVE ParseMembers(_, _, _)

\* The elements of an array after its "[" or a ",": a value, then "," and
\* more elements, or "]".
ParseElements(s, i, acc) ==
    Bind(ParseValue(s, SkipWS(s, i)), LAMBDA r :
        IF ~r.ok THEN Fail
        ELSE Bind(SkipWS(s, r.i), LAMBDA j :
                 IF At(s, j) = ","
                 THEN ParseElements(s, j + 1, Append(acc, r.v))
                 ELSE IF At(s, j) = "]"
                 THEN Read(JArr(Append(acc, r.v)), j + 1)
                 ELSE Fail))

\* The members of an object after its "{" or a ",": a string, ":", a value,
\* then "," and more members, or "}".
ParseMembers(s, i, acc) ==
    Bind(SkipWS(s, i), LAMBDA a :
    Bind(IF At(s, a) = "\"" THEN ParseStringBody(s, a + 1, <<>>) ELSE Fail,
         LAMBDA k :
    Bind(SkipWS(s, k.i), LAMBDA c :
    Bind(IF k.ok /\ At(s, c) = ":" THEN ParseValue(s, SkipWS(s, c + 1))
         ELSE Fail, LAMBDA r :
        IF ~r.ok THEN Fail
        ELSE Bind(SkipWS(s, r.i), LAMBDA j :
                 IF At(s, j) = ","
                 THEN ParseMembers(s, j + 1,
                          Append(acc, [key |-> k.v.s, val |-> r.v]))
                 ELSE IF At(s, j) = "}"
                 THEN Read(JObj(Append(acc, [key |-> k.v.s, val |-> r.v])),
                           j + 1)
                 ELSE Fail)))))

\* One JSON value at position i (white space already skipped).
ParseValue(s, i) ==
    Bind(At(s, i), LAMBDA c :
        CASE c = "{" ->
               Bind(SkipWS(s, i + 1), LAMBDA j :
                   IF At(s, j) = "}" THEN Read(JObj(<<>>), j + 1)
                   ELSE ParseMembers(s, j, <<>>))
          [] c = "[" ->
               Bind(SkipWS(s, i + 1), LAMBDA j :
                   IF At(s, j) = "]" THEN Read(JArr(<<>>), j + 1)
                   ELSE ParseElements(s, j, <<>>))
          [] c = "\"" -> ParseStringBody(s, i + 1, <<>>)
          [] c = "-" \/ IsDigit(c) -> ParseNumber(s, i)
          [] StartsWith(s, i, <<"t", "r", "u", "e">>) -> Read(JBool(TRUE), i + 4)
          [] StartsWith(s, i, <<"f", "a", "l", "s", "e">>) ->
               Read(JBool(FALSE), i + 5)
          [] StartsWith(s, i, <<"n", "u", "l", "l">>) -> Read(JNull, i + 4)
          [] OTHER -> Fail)

\* JSON.parse(s): [ok |-> FALSE] stands for the SyntaxError it throws.
JSONParse(s) ==
    Bind(ParseValue(s, SkipWS(s, 1)), LAMBDA r :
        IF r.ok /\ SkipWS(s, r.i) = Len(s) + 1
        THEN [ok |-> TRUE, v |-> r.v]
        ELSE [ok |-> FALSE, v |-> JUndefined])

----------------------------------------------------------------------------
(* String.prototype.trim, Number() and the regular expression of line 150 *)

RECURSIVE FirstNonSpace(_, _, _)
\* The first position in lo .. hi that holds no white space, 0 when there
\* is none.
FirstNonSpace(s, lo, hi) ==
    IF lo > hi THEN 0
    ELSE IF lo = hi THEN (IF s[lo] \in JSWhiteSpace THEN 0 ELSE lo)
    ELSE Bind(FirstNonSpace(s, lo, (lo + hi) \div 2), LAMBDA i :
             IF i # 0 THEN i
             ELSE FirstNonSpace(s, (lo + hi) \div 2 + 1, hi))

RECURSIVE LastNonSpace(_, _, _)
\* The last position in lo .. hi that holds no white space, 0 when there is
\* none.
LastNonSpace(s, lo, hi) ==
    IF lo > hi THEN 0
    ELSE IF lo = hi THEN (IF s[lo] \in JSWhiteSpace THEN 0 ELSE lo)
    ELSE Bind(LastNonSpace(s, (lo + hi) \div 2 + 1, hi), LAMBDA i :
             IF i # 0 THEN i
             ELSE LastNonSpace(s, lo, (lo + hi) \div 2))

TrimStart(s) ==
    Bind(FirstNonSpace(s, 1, Len(s)), LAMBDA i :
        IF i = 0 THEN <<>> ELSE SubSeq(s, i, Len(s)))

TrimEnd(s) == SubSeq(s, 1, LastNonSpace(s, 1, Len(s)))

Trim(s) == TrimEnd(TrimStart(s))

\* The bits of one digit in radix 16, 8 or 2.
RadixBits(radix) == IF radix = 16 THEN 4 ELSE IF radix = 8 THEN 3 ELSE 1

RECURSIVE RadixVal(_, _, _, _)
\* The value of the digits s[a] .. s[b] in the radix 2^bits.
RadixVal(s, a, b, bits) ==
    IF a > b THEN <<>>
    ELSE IF a = b THEN NatOfInt(HexVal(s[a]))
    ELSE NatAdd(TimesPow2(RadixVal(s, a, (a + b) \div 2, bits),
                          bits * (b - (a + b) \div 2)),
                RadixVal(s, (a + b) \div 2 + 1, b, bits))

\* The radix a two-character prefix announces, 0 when it is no prefix.
RadixOf(s) ==
    IF At(s, 1) # "0" THEN 0
    ELSE IF At(s, 2) \in {"x", "X"} THEN 16
    ELSE IF At(s, 2) \in {"o", "O"} THEN 8
    ELSE IF At(s, 2) \in {"b", "B"} THEN 2
    ELSE 0

InfinityLit == <<"I", "n", "f", "i", "n", "i", "t", "y">>

\* Number(s) for a string: white space is trimmed, the empty string is 0,
\* then Infinity, a prefixed hexadecimal, octal or binary integer, or a signed
\* decimal literal; anything else is NaN.
StringToNumber(s) ==
    Bind(Trim(s), LAMBDA t :
    Bind(IF At(t, 1) \in {"+", "-"} THEN 2 ELSE 1, LAMBDA start :
    Bind(RadixOf(t), LAMBDA radix :
        IF t = <<>> THEN Zero(FALSE)
        ELSE IF SubSeq(t, start, Len(t)) = InfinityLit
        THEN Infinity(At(t, 1) = "-")
        ELSE IF radix # 0
        THEN IF Len(t) >= 3 /\ \A i \in 3..Len(t) :
                                 IsHexDigit(t[i]) /\ HexVal(t[i]) < radix
             THEN ToDouble(FALSE, RadixVal(t, 3, Len(t), RadixBits(radix)), 0)
             ELSE NaN
        ELSE Bind(ScanDecimal(t, start), LAMBDA d :
                 IF /\ d.intLen + d.fracLen >= 1
                    /\ d.expOk
                    /\ d.end = Len(t) + 1
                 THEN ToDouble(At(t, 1) = "-", d.m, d.e)
                 ELSE NaN))))

\* What Number(v) gives when the conversion throws a TypeError.
TypeError == [t |-> "TypeError"]

ToStringKey == <<"t", "o", "S", "t", "r", "i", "n", "g">>

RECURSIVE NoPrimitive(_)
\* Converting v to a primitive throws.  An object parsed from JSON has no
\* callable member: with an own member toString it hides
\* Object.prototype.toString, its valueOf (own and not callable, or
\* inherited and returning the object) gives no primitive either, and
\* "Cannot convert object to primitive value" is thrown.  An array joins the
\* string forms of its elements, null excepted, and throws when one of them
\* does.
NoPrimitive(v) ==
    CASE v.t = "obj" ->
           \E k \in DOMAIN v.members : v.members[k].key = ToStringKey
      [] v.t = "arr" -> \E k \in DOMAIN v.items : NoPrimitive(v.items[k])
      [] OTHER -> FALSE

RECURSIVE ToNumber(_)
\* Number(v), or TypeError.  An array converts through its string form: the
\* empty string for no element, the string form of its only element (empty
\* for null, "0" for -0, and for any other number a text that reads as that
\* number), and a text holding "," for two elements or more.  An object
\* converts through "[object Object]".
ToNumber(v) ==
    CASE v.t = "undefined" -> NaN
      [] v.t = "null" -> Zero(FALSE)
      [] v.t = "bool" -> IF v.b THEN JInt(1) ELSE Zero(FALSE)
      [] v.t = "num" -> v
      [] v.t = "str" -> StringToNumber(v.s)
      [] v.t = "arr" ->
           IF NoPrimitive(v) THEN TypeError
           ELSE IF Len(v.items) = 0 THEN Zero(FALSE)
           ELSE IF Len(v.items) > 1 THEN NaN
           ELSE IF v.items[1].t \in {"null", "str", "num", "arr"}
           THEN Bind(ToNumber(v.items[1]), LAMBDA n :
                    IF n.k = "fin" /\ n.m = <<>> /\ v.items[1].t = "num"
                    THEN Zero(FALSE) ELSE n)
           ELSE NaN
      [] v.t = "obj" -> IF NoPrimitive(v) THEN TypeError ELSE NaN
      [] OTHER -> NaN

\* A finite integer greater than zero.
IsPositiveInteger(n) ==
    n.t = "num" /\ n.k = "fin" /\ ~n.neg /\ n.m # <<>> /\ n.e >= 0

\* The positions of s that hold character c.
Positions(s, c) == {i \in 1..Len(s) : s[i] = c}

Min(S) == CHOOSE x \in S : \A y \in S : x <= y

Max(S) == CHOOSE x \in S : \A y \in S : x >= y

\* The match of a lazy quantifier, /\{[\s\S]*?\}/: from the first "{" through
\* the first "}" after it.
MatchBracesLazy(s) ==
    Bind(Positions(s, "{"), LAMBDA open :
    Bind(Positions(s, "}"), LAMBDA close :
        IF open # {} /\ close # {} /\ Max(close) > Min(open)
        THEN [found |-> TRUE,
              text |-> SubSeq(s, Min(open),
                              Min({j \in close : j > Min(open)}))]
        ELSE [found |-> FALSE, text |-> <<>>]))

\* res.match(/\{[\s\S]*\}/): the text from the first "{" through the last "}"
\* after it; found is FALSE when there is no such pair.
MatchBraces(s) ==
    Bind(Positions(s, "{"), LAMBDA open :
    Bind(Positions(s, "}"), LAMBDA close :
        IF open # {} /\ close # {} /\ Max(close) > Min(open)
        THEN [found |-> TRUE, text |-> SubSeq(s, Min(open), Max(close))]
        ELSE [found |-> FALSE, text |-> <<>>]))

----------------------------------------------------------------------------
(* The response interpreter and the comment mapper *)

EmptyObjectText == <<"{", "}">>

ReviewsKey == <<"r", "e", "v", "i", "e", "w", "s">>

LineNumberKey == <<"l", "i", "n", "e", "N", "u", "m", "b", "e", "r">>

ReviewCommentKey ==
    <<"r", "e", "v", "i", "e", "w", "C", "o", "m", "m", "e", "n", "t">>

DevNull == JStr(<<"/", "d", "e", "v", "/", "n", "u", "l", "l">>)

\* What openai.chat.completions.create can do for one prompt: reject
\* ("throw"), resolve with no choice ("nochoice"), resolve with a message
\* that has no content ("nocontent"), or resolve with a content text.
Throws == [kind |-> "throw", text |-> <<>>]

NoChoice == [kind |-> "nochoice", text |-> <<>>]

NoContent == [kind |-> "nocontent", text |-> <<>>]

Content(text) == [kind |-> "text", text |-> text]

\* Line 145: response.choices[0].message?.content?.trim() || "{}".
ResponseText(out) ==
    Bind(Trim(out.text), LAMBDA trimmed :
        IF out.kind = "text" /\ trimmed # <<>> THEN trimmed
        ELSE EmptyObjectText)

\* Lines 149-153: the matched text, or the whole response without a match.
JsonStr(res) ==
    Bind(MatchBraces(res), LAMBDA jsonMatch :
        IF jsonMatch.found THEN jsonMatch.text ELSE res)

\* Line 157: parsed.reviews || [].
ReviewsOrEmpty(parsed) ==
    Bind(Get(parsed, ReviewsKey), LAMBDA reviews :
        IF Truthy(reviews) THEN reviews ELSE JArr(<<>>))

\* getAIResponse, lines 133-162, for one outcome of the model call.  Every
\* throw inside the try block (the rejected call, choices[0] undefined, the
\* SyntaxError of JSON.parse, the TypeError of reading null.reviews) is
\* caught and becomes null.
getAIResponse(out) ==
    IF out.kind \in {"throw", "nochoice"} THEN JNull
    ELSE Bind(JSONParse(JsonStr(ResponseText(out))), LAMBDA parsed :
             IF ~parsed.ok THEN JNull
             ELSE IF ThrowsOnGet(parsed.v) THEN JNull
             ELSE ReviewsOrEmpty(parsed.v))

\* Lines 177-181: the record the callback returns for one entry, or
\* TypeError when the entry is null (line 178 reads a member of it) or Number
\* throws (line 180).
CommentOf(to, aiResponse) ==
    IF ThrowsOnGet(aiResponse) THEN TypeError
    ELSE Bind(ToNumber(Get(aiResponse, LineNumberKey)), LAMBDA line :
             IF line = TypeError THEN TypeError
             ELSE [body |-> Get(aiResponse, ReviewCommentKey),
                   path |-> to,
                   line |-> line])

RECURSIVE FlatMapComments(_, _, _, _)
\* The callback of lines 173-182 applied to items[i ..], appended to acc:
\* nothing for an entry when file.to is falsy, a TypeError (threw) when the
\* callback throws, and one record per entry otherwise.
FlatMapComments(to, items, i, acc) ==
    IF i > Len(items) THEN [threw |-> FALSE, comments |-> acc]
    ELSE IF ~Truthy(to) THEN FlatMapComments(to, items, i + 1, acc)
    ELSE Bind(CommentOf(to, items[i]), LAMBDA c :
             IF c = TypeError THEN [threw |-> TRUE, comments |-> <<>>]
             ELSE FlatMapComments(to, items, i + 1, Append(acc, c)))

\* createComment, lines 165-183: aiResponses.flatMap is a function only
\* when aiResponses is an array; calling it on anything else throws.
createComment(to, aiResponses) ==
    IF aiResponses.t # "arr" THEN [threw |-> TRUE, comments |-> <<>>]
    ELSE FlatMapComments(to, aiResponses.items, 1, <<>>)

\* Lines 79-85 of analyzeCode for one awaited response: what is pushed on
\* comments, and whether the TypeError of createComment leaves analyzeCode.
HunkComments(to, aiResponse) ==
    IF ~Truthy(aiResponse) THEN [threw |-> FALSE, comments |-> <<>>]
    ELSE createComment(to, aiResponse)

----------------------------------------------------------------------------
(* Texts *)

\* The elements of the set S of numbers, in rising order.
SortedSeq(S) ==
    [k \in 1..Cardinality(S) |->
        CHOOSE x \in S : Cardinality({y \in S : y < x}) = k - 1]

RECURSIVE Flatten(_, _, _)
\* The concatenation of pieces[lo], ..., pieces[hi].
Flatten(pieces, lo, hi) ==
    IF lo > hi THEN <<>>
    ELSE IF lo = hi THEN pieces[lo]
    ELSE Bind(Flatten(pieces, lo, (lo + hi) \div 2), LAMBDA left :
             left \o Flatten(pieces, (lo + hi) \div 2 + 1, hi))

\* The pieces of s between the separators that start at the positions of
\* seps and are w characters wide each.
Pieces(s, seps, w) ==
    Bind(SortedSeq(seps), LAMBDA q :
        [k \in 1..(Len(q) + 1) |->
            SubSeq(s, IF k = 1 THEN 1 ELSE q[k - 1] + w,
                      IF k > Len(q) THEN Len(s) ELSE q[k] - 1)])

\* s.split(c) for a character c.
Split(s, c) == Pieces(s, Positions(s, c), 1)

\* s.slice(from, to) with the indices of JavaScript, which count from 0, count
\* from the end when negative and are clamped to the text.
Slice(s, from, to) ==
    LET Clamp(x) == IF x < 0 THEN (IF Len(s) + x < 0 THEN 0 ELSE Len(s) + x)
                    ELSE IF x > Len(s) THEN Len(s) ELSE x
    IN  SubSeq(s, Clamp(from) + 1, Clamp(to))

\* The number of backslashes that stand directly before position j of s.
RunBefore(s, j) ==
    Bind({k \in 1..(j - 1) : s[k] # "\\"}, LAMBDA others :
        j - 1 - (IF others = {} THEN 0 ELSE Max(others)))

\* s.indexOf(c, from), positions counting from 1 and 0 standing for -1.
IndexOf(s, c, from) ==
    Bind({j \in from..Len(s) : s[j] = c}, LAMBDA found :
        IF found = {} THEN 0 ELSE Min(found))

LineTerminators == {"\n", "\r", "\\u2028", "\\u2029"}

\* The name of the character with code unit n that has no other notation.
CodeName(n) ==
    "\\u" \o HexLower[n \div 4096 + 1] \o HexLower[((n \div 256) % 16) + 1]
          \o HexLower[((n \div 16) % 16) + 1] \o HexLower[(n % 16) + 1]

\* String.fromCharCode(n).
FromCharCode(n) ==
    IF n >= 32 /\ n <= 126 THEN Ascii[n - 31]
    ELSE IF n = 9 THEN "\t"
    ELSE IF n = 10 THEN "\n"
    ELSE IF n = 12 THEN "\f"
    ELSE IF n = 13 THEN "\r"
    ELSE CodeName(n)

\* c.charCodeAt(0).
CharCode(c) ==
    IF \E k \in DOMAIN Ascii : Ascii[k] = c
    THEN 31 + (CHOOSE k \in DOMAIN Ascii : Ascii[k] = c)
    ELSE IF c = "\t" THEN 9
    ELSE IF c = "\n" THEN 10
    ELSE IF c = "\f" THEN 12
    ELSE IF c = "\r" THEN 13
    ELSE CHOOSE n \in 0..65535 : CodeName(n) = c

RECURSIVE DecimalOf(_)
\* The decimal digits of the natural number n, <<>> for 0.
DecimalOf(n) ==
    IF n = 0 THEN <<>> ELSE Append(DecimalOf(n \div 10), Digits[(n % 10) + 1])

\* String(i) for an integer i.
IntToText(i) ==
    IF i = 0 THEN <<"0">>
    ELSE IF i < 0 THEN <<"-">> \o DecimalOf(-i)
    ELSE DecimalOf(i)

RECURSIVE DigitsValue(_, _, _)
\* The number the decimal digits s[lo .. hi] denote.
DigitsValue(s, lo, hi) ==
    IF lo > hi THEN 0
    ELSE DigitsValue(s, lo, hi - 1) * 10 + DigitVal(s[hi])

\* s matches /^-?\d+$/.
IsIntegerText(s) ==
    LET from == IF At(s, 1) = "-" THEN 2 ELSE 1
    IN  from <= Len(s) /\ \A k \in from..Len(s) : IsDigit(s[k])

\* parseInt(s, 10) for a text s that matches /^-?\d+$/.
IntegerOf(s) ==
    IF s[1] = "-" THEN - DigitsValue(s, 2, Len(s))
    ELSE DigitsValue(s, 1, Len(s))

----------------------------------------------------------------------------
(* Regular expressions: the part of the language of RegExp that a glob is  *)
(* translated to.  A source text is read into tokens; a token is a record  *)
(* [k, d, c, neg, items]: its kind k, the depth d of groups around it, the *)
(* character c of a literal, the mark of a group or the letter of a        *)
(* quantifier, neg for a negated class and a lazy quantifier, and the      *)
(* items of a class.                                                       *)

Tok(k, d, c, neg, items) ==
    [k |-> k, d |-> d, c |-> c, neg |-> neg, items |-> items]

\* An item of a class: the characters a .. b, or the class escape esc.
Item(esc, a, b) == [esc |-> esc, a |-> a, b |-> b]

\* The characters of \w.
WordCharacters ==
    {Ascii[k] : k \in (17..26) \cup (34..59) \cup {64} \cup (66..91)}

OctalDigits == {"0", "1", "2", "3", "4", "5", "6", "7"}

AsciiLetters == {Ascii[k] : k \in (34..59) \cup (66..91)}

\* The escape that starts with the backslash at position i of re: the
\* number n of characters it takes, the letter esc of a class escape or of
\* \b and \B, and the character ch it denotes otherwise.
Escape(re, i, inClass) ==
    LET e == At(re, i + 1)
        Char(n, ch) == [n |-> n, esc |-> "", ch |-> ch]
        octal == IF At(re, i + 2) \notin OctalDigits THEN 1
                 ELSE IF e \in {"0", "1", "2", "3"}
                         /\ At(re, i + 3) \in OctalDigits THEN 3
                 ELSE 2
    IN  CASE e \in {"d", "D", "w", "W", "s", "S"} ->
                [n |-> 2, esc |-> e, ch |-> ""]
          [] e \in {"b", "B"} /\ ~inClass -> [n |-> 2, esc |-> e, ch |-> ""]
          [] e = "b" /\ inClass -> Char(2, FromCharCode(8))
          [] e = "t" -> Char(2, "\t")
          [] e = "n" -> Char(2, "\n")
          [] e = "v" -> Char(2, FromCharCode(11))
          [] e = "f" -> Char(2, "\f")
          [] e = "r" -> Char(2, "\r")
          [] e \in OctalDigits ->
                Char(1 + octal,
                     FromCharCode(
                         IF octal = 1 THEN DigitVal(e)
                         ELSE IF octal = 2
                         THEN DigitVal(e) * 8 + DigitVal(re[i + 2])
                         ELSE (DigitVal(e) * 8 + DigitVal(re[i + 2])) * 8
                              + DigitVal(re[i + 3])))
          [] e = "x" /\ \A k \in 2..3 : IsHexDigit(At(re, i + k)) ->
                Char(4, FromCharCode(HexVal(re[i + 2]) * 16
                                     + HexVal(re[i + 3])))
          [] e = "u" /\ \A k \in 2..5 : IsHexDigit(At(re, i + k)) ->
                Char(6, FromCharCode(HexCode(SubSeq(re, i + 2, i + 5))))
          [] e = "c" ->
                IF \/ At(re, i + 2) \in AsciiLetters
                   \/ /\ inClass
                      /\ (IsDigit(At(re, i + 2)) \/ At(re, i + 2) = "_")
                THEN Char(3, FromCharCode(CharCode(re[i + 2]) % 32))
                ELSE Char(1, "\\")
          [] OTHER -> Char(2, e)

RECURSIVE ClassEndFrom(_, _, _, _)
\* The first position in lo .. hi that holds a "]" which no backslash
\* escapes, the class having opened at position open; 0 when there is none.
ClassEndFrom(re, open, lo, hi) ==
    IF lo > hi THEN 0
    ELSE IF lo = hi
    THEN (IF re[lo] = "]"
             /\ RunBefore(SubSeq(re, open + 1, lo), lo - open) % 2 = 0
          THEN lo ELSE 0)
    ELSE Bind(ClassEndFrom(re, open, lo, (lo + hi) \div 2), LAMBDA j :
             IF j # 0 THEN j
             ELSE ClassEndFrom(re, open, (lo + hi) \div 2 + 1, hi))

\* What one character of the text of a class adds to its atoms.  An atom is
\* an item with a = b, and b = "-" with a = "" for the sign of a range.
ClassAtomStep(re, st, i) ==
    IF st.skip > 0 THEN [st EXCEPT !.skip = @ - 1]
    ELSE IF re[i] = "\\"
    THEN Bind(Escape(re, i, TRUE), LAMBDA x :
             [atoms |-> Append(st.atoms, Item(x.esc, x.ch, x.ch)),
              skip |-> x.n - 1])
    ELSE IF re[i] = "-"
    THEN [atoms |-> Append(st.atoms, Item("", "", "-")), skip |-> 0]
    ELSE [atoms |-> Append(st.atoms, Item("", re[i], re[i])), skip |-> 0]

RECURSIVE ClassAtoms(_, _, _, _)
ClassAtoms(re, st, lo, hi) ==
    IF lo > hi THEN st
    ELSE IF lo = hi THEN ClassAtomStep(re, st, lo)
    ELSE Bind(ClassAtoms(re, st, lo, (lo + hi) \div 2), LAMBDA mid :
             ClassAtoms(re, mid, (lo + hi) \div 2 + 1, hi))

\* The atom as an item: the sign of a range that makes no range is the
\* character "-".
Single(atom) == IF atom.a = "" /\ atom.esc = "" THEN Item("", "-", "-")
                ELSE atom

\* What the atom at position i adds to the items of a class: with a sign
\* and an atom after it, the range, which is out of order (bad) when it
\* ends below its start, and three items when one side is a class escape.
ClassItemStep(atoms, st, i) ==
    IF st.bad THEN st
    ELSE IF st.skip > 0 THEN [st EXCEPT !.skip = @ - 1]
    ELSE IF i + 2 <= Len(atoms) /\ atoms[i + 1].a = "" /\ atoms[i + 1].esc = ""
    THEN Bind(Single(atoms[i]), LAMBDA from :
         Bind(Single(atoms[i + 2]), LAMBDA to :
             IF from.esc # "" \/ to.esc # ""
             THEN [items |-> st.items \o <<from, Item("", "-", "-"), to>>,
                   skip |-> 2, bad |-> FALSE]
             ELSE IF from.a = to.a
             THEN [items |-> Append(st.items, from), skip |-> 2,
                   bad |-> FALSE]
             ELSE IF CharCode(from.a) > CharCode(to.a)
             THEN [st EXCEPT !.bad = TRUE]
             ELSE [items |-> Append(st.items, Item("", from.a, to.a)),
                   skip |-> 2, bad |-> FALSE]))
    ELSE [items |-> Append(st.items, Single(atoms[i])), skip |-> 0,
          bad |-> FALSE]

RECURSIVE ClassItems(_, _, _, _)
ClassItems(atoms, st, lo, hi) ==
    IF lo > hi THEN st
    ELSE IF lo = hi THEN ClassItemStep(atoms, st, lo)
    ELSE Bind(ClassItems(atoms, st, lo, (lo + hi) \div 2), LAMBDA mid :
             ClassItems(atoms, mid, (lo + hi) \div 2 + 1, hi))

\* The class that opens at position i of re and closes at position j.
ClassOf(re, i, j) ==
    Bind(At(re, i + 1) = "^", LAMBDA neg :
    Bind(ClassAtoms(re, [atoms |-> <<>>, skip |-> 0],
                    IF neg THEN i + 2 ELSE i + 1, j - 1).atoms,
         LAMBDA atoms :
    Bind(ClassItems(atoms, [items |-> <<>>, skip |-> 0, bad |-> FALSE],
                    1, Len(atoms)), LAMBDA r :
        [bad |-> r.bad, neg |-> neg, items |-> r.items])))

\* What the character at position i of the source adds to the tokens.  The
\* source is no regular expression (bad) when a group does not close or a
\* ")" closes none, a class does not close or has a range out of order, a
\* quantifier has nothing to repeat, or the text ends in a backslash.
TokenStep(re, st, i) ==
    IF st.bad THEN st
    ELSE IF st.skip > 0 THEN [st EXCEPT !.skip = @ - 1]
    ELSE LET c == re[i]
             d == st.depth
             Bad == [st EXCEPT !.bad = TRUE]
             Push(t, skip) == [st EXCEPT !.toks = Append(@, t),
                                         !.skip = skip]
             last == IF st.toks = <<>> THEN Tok("", 0, "", FALSE, <<>>)
                     ELSE st.toks[Len(st.toks)]
         IN  CASE c = "\\" ->
                    IF i = Len(re) THEN Bad
                    ELSE Bind(Escape(re, i, FALSE), LAMBDA x :
                             IF x.esc \in {"b", "B"}
                             THEN Push(Tok("wordb", d, "", x.esc = "B", <<>>),
                                       1)
                             ELSE IF x.esc # ""
                             THEN Push(Tok("set", d, "", FALSE,
                                           <<Item(x.esc, "", "")>>), 1)
                             ELSE Push(Tok("chr", d, x.ch, FALSE, <<>>),
                                       x.n - 1))
               [] c = "[" ->
                    Bind(ClassEndFrom(re, IF At(re, i + 1) = "^" THEN i + 1
                                          ELSE i,
                                      IF At(re, i + 1) = "^" THEN i + 2
                                      ELSE i + 1, Len(re)), LAMBDA j :
                        IF j = 0 THEN Bad
                        ELSE Bind(ClassOf(re, i, j), LAMBDA cl :
                                 IF cl.bad THEN Bad
                                 ELSE Push(Tok("set", d, "", cl.neg, cl.items),
                                           j - i)))
               [] c = "(" ->
                    IF At(re, i + 1) # "?"
                    THEN [st EXCEPT !.toks = Append(@, Tok("open", d, ":",
                                                           FALSE, <<>>)),
                                    !.depth = d + 1]
                    ELSE IF At(re, i + 2) \in {":", "=", "!"}
                    THEN [st EXCEPT !.toks = Append(@, Tok("open", d,
                                                           re[i + 2], FALSE,
                                                           <<>>)),
                                    !.depth = d + 1,
                                    !.skip = 2]
                    ELSE Bad
               [] c = ")" ->
                    IF d = 0 THEN Bad
                    ELSE [st EXCEPT !.toks = Append(@, Tok("close", d - 1, "",
                                                           FALSE, <<>>)),
                                    !.depth = d - 1]
               [] c = "|" -> Push(Tok("alt", d, "", FALSE, <<>>), 0)
               [] c = "^" -> Push(Tok("bol", d, "", FALSE, <<>>), 0)
               [] c = "$" -> Push(Tok("eol", d, "", FALSE, <<>>), 0)
               [] c = "." -> Push(Tok("any", d, "", FALSE, <<>>), 0)
               [] c \in {"*", "+", "?"} ->
                    IF last.k \in {"chr", "any", "set", "close"}
                    THEN Push(Tok("quant", d, c, FALSE, <<>>), 0)
                    ELSE IF last.k = "quant" /\ c = "?" /\ ~last.neg
                    THEN [st EXCEPT !.toks[Len(st.toks)].neg = TRUE]
                    ELSE Bad
               [] OTHER -> Push(Tok("chr", d, c, FALSE, <<>>), 0)

RECURSIVE Tokens(_, _, _, _)
Tokens(re, st, lo, hi) ==
    IF lo > hi THEN st
    ELSE IF lo = hi THEN TokenStep(re, st, lo)
    ELSE Bind(Tokens(re, st, lo, (lo + hi) \div 2), LAMBDA mid :
             Tokens(re, mid, (lo + hi) \div 2 + 1, hi))

\* new RegExp(re): its tokens, or bad when the constructor throws.
RegExp(re) ==
    Bind(Tokens(re, [toks |-> <<>>, depth |-> 0, skip |-> 0, bad |-> FALSE],
                1, Len(re)), LAMBDA st :
        [bad |-> st.bad \/ st.depth # 0, toks |-> st.toks])

\* Class item it holds character c.
ItemHolds(it, c) ==
    CASE it.esc = "d" -> IsDigit(c)
      [] it.esc = "D" -> ~IsDigit(c)
      [] it.esc = "w" -> c \in WordCharacters
      [] it.esc = "W" -> c \notin WordCharacters
      [] it.esc = "s" -> c \in JSWhiteSpace
      [] it.esc = "S" -> c \notin JSWhiteSpace
      [] OTHER -> \/ c = it.a
                  \/ c = it.b
                  \/ /\ it.a # it.b
                     /\ CharCode(it.a) <= CharCode(c)
                     /\ CharCode(c) <= CharCode(it.b)

\* Token t, which stands for one character, matches character c.
CharMatches(t, c) ==
    CASE t.k = "chr" -> c = t.c
      [] t.k = "any" -> c \notin LineTerminators
      [] t.k = "set" ->
            (\E k \in DOMAIN t.items : ItemHolds(t.items[k], c)) # t.neg
      [] OTHER -> FALSE

\* The token that closes the group token i opens.
Partner(toks, i) ==
    Min({j \in (i + 1)..Len(toks) :
            toks[j].k = "close" /\ toks[j].d = toks[i].d})

RECURSIVE Ends(_, _, _, _, _, _)
RECURSIVE SeqEnds(_, _, _, _, _, _)
RECURSIVE Run(_, _, _, _, _, _)
RECURSIVE AtomEnds(_, _, _, _, _)
RECURSIVE Reach(_, _)

\* The set of the positions of f where a match of tokens lo .. hi, read as
\* alternatives at depth d, can end when it starts at a position of from.
Ends(toks, f, lo, hi, d, from) ==
    Bind({j \in lo..hi : toks[j].k = "alt" /\ toks[j].d = d} \cup {hi + 1},
         LAMBDA bars :
        UNION {SeqEnds(toks, f, b + 1,
                       Min({x \in bars : x > b}) - 1, d, from) :
               b \in (bars \cup {lo - 1}) \ {hi + 1}})

\* The same for one alternative: its atoms one after the other.
SeqEnds(toks, f, lo, hi, d, from) ==
    Bind(SortedSeq({j \in lo..hi :
                       /\ toks[j].d = d
                       /\ toks[j].k \notin {"quant", "close", "alt"}}),
         LAMBDA atoms : Run(toks, f, atoms, 1, Len(atoms), from))

\* The same for the atoms lo .. hi of an alternative.
Run(toks, f, atoms, lo, hi, from) ==
    IF lo > hi \/ from = {} THEN from
    ELSE IF lo = hi
    THEN Bind(IF toks[atoms[lo]].k = "open" THEN Partner(toks, atoms[lo])
              ELSE atoms[lo], LAMBDA last :
         Bind(IF last < Len(toks) /\ toks[last + 1].k = "quant"
              THEN toks[last + 1].c ELSE "", LAMBDA q :
             IF q = "" THEN AtomEnds(toks, f, atoms[lo], last, from)
             ELSE IF q = "?"
             THEN from \cup AtomEnds(toks, f, atoms[lo], last, from)
             ELSE Bind([p \in 1..(Len(f) + 1) |->
                          {p} \cup AtomEnds(toks, f, atoms[lo], last, {p})],
                       LAMBDA step :
                  Bind(Reach(step, Len(f)), LAMBDA closure :
                      IF q = "*" THEN UNION {closure[p] : p \in from}
                      ELSE UNION {closure[p] :
                                  p \in AtomEnds(toks, f, atoms[lo], last,
                                                 from)}))))
    ELSE Bind(Run(toks, f, atoms, lo, (lo + hi) \div 2, from), LAMBDA mid :
             Run(toks, f, atoms, (lo + hi) \div 2 + 1, hi, mid))

\* The same for the one atom that spans tokens i .. last, without its
\* quantifier.
AtomEnds(toks, f, i, last, from) ==
    LET t == toks[i]
        Inner(S) == Ends(toks, f, i + 1, last - 1, t.d + 1, S)
        Word(p) == p >= 1 /\ p <= Len(f) /\ f[p] \in WordCharacters
    IN  CASE t.k \in {"chr", "any", "set"} ->
                {p + 1 : p \in {x \in from : /\ x <= Len(f)
                                             /\ CharMatches(t, f[x])}}
          [] t.k = "bol" -> from \cap {1}
          [] t.k = "eol" -> from \cap {Len(f) + 1}
          [] t.k = "wordb" ->
                {p \in from : (Word(p - 1) # Word(p)) # t.neg}
          [] t.k = "open" /\ t.c = ":" -> Inner(from)
          [] t.k = "open" /\ t.c = "=" -> {p \in from : Inner({p}) # {}}
          [] t.k = "open" /\ t.c = "!" -> {p \in from : Inner({p}) = {}}
          [] OTHER -> {}

\* step[p] being the positions one pass or none leads to from p, the
\* positions any number of passes lead to, n bounding the number.
Reach(step, n) ==
    IF n <= 1 THEN step
    ELSE Bind(Reach(step, (n + 1) \div 2), LAMBDA half :
             [p \in DOMAIN half |-> UNION {half[q] : q \in half[p]}])

\* regExp.test(f).
Test(regExp, f) ==
    /\ ~regExp.bad
    /\ Ends(regExp.toks, f, 1, Len(regExp.toks), 0, 1..(Len(f) + 1)) # {}

----------------------------------------------------------------------------
(* Brace expansion: the package brace-expansion, with its package          *)
(* balanced-match.                                                         *)

\* The marks that stand for an escaped character while braces are expanded.
EscSlash == "escSlash"

EscOpen == "escOpen"

EscClose == "escClose"

EscComma == "escComma"

EscPeriod == "escPeriod"

\* The mark of an expansion that throws RangeError: Invalid array length.
RangeError == "rangeError"

\* escapeBraces: every "\\" becomes a mark, then every "\{", "\}", "\,"
\* and "\.".
EscapeBraces(s) ==
    LET Marked == {"{", "}", ",", "."}
        MarkOf(c) == CASE c = "{" -> EscOpen
                       [] c = "}" -> EscClose
                       [] c = "," -> EscComma
                       [] OTHER -> EscPeriod
        Piece(j) ==
            IF s[j] = "\\"
            THEN (IF RunBefore(s, j) % 2 = 1 THEN <<>>
                  ELSE IF At(s, j + 1) = "\\" THEN <<EscSlash>>
                  ELSE IF At(s, j + 1) \in Marked THEN <<MarkOf(s[j + 1])>>
                  ELSE <<"\\">>)
            ELSE IF s[j] \in Marked /\ RunBefore(s, j) % 2 = 1 THEN <<>>
            ELSE <<s[j]>>
    IN  Flatten([j \in 1..Len(s) |-> Piece(j)], 1, Len(s))

\* unescapeBraces.
UnescapeBraces(s) ==
    [j \in 1..Len(s) |->
        CASE s[j] = EscSlash -> "\\"
          [] s[j] = EscOpen -> "{"
          [] s[j] = EscClose -> "}"
          [] s[j] = EscComma -> ","
          [] s[j] = EscPeriod -> "."
          [] OTHER -> s[j]]

RECURSIVE RangeLoop(_, _, _, _, _, _, _)
\* The loop of range() of balanced-match: i the position read, ai and bi the
\* next "{" and "}", begs the open braces passed, left and right the
\* leftmost pair closed inside them.
RangeLoop(s, i, ai, bi, begs, left, right) ==
    IF i = 0 THEN [start |-> left, end |-> right]
    ELSE IF i = ai
    THEN Bind(IndexOf(s, "{", i + 1), LAMBDA a2 :
             RangeLoop(s, IF a2 # 0 /\ a2 < bi THEN a2 ELSE bi, a2, bi,
                       Append(begs, i), left, right))
    ELSE IF Len(begs) = 1 THEN [start |-> begs[1], end |-> bi]
    ELSE Bind(begs[Len(begs)], LAMBDA beg :
         Bind(IndexOf(s, "}", i + 1), LAMBDA b2 :
             RangeLoop(s, IF ai # 0 /\ ai < b2 THEN ai ELSE b2, ai, b2,
                       SubSeq(begs, 1, Len(begs) - 1),
                       IF beg < left THEN beg ELSE left,
                       IF beg < left THEN bi ELSE right)))

\* balanced("{", "}", s).
Balanced(s) ==
    Bind(IndexOf(s, "{", 1), LAMBDA ai :
    Bind(IndexOf(s, "}", ai + 1), LAMBDA bi :
        IF ai = 0 \/ bi = 0
        THEN [found |-> FALSE, pre |-> <<>>, body |-> <<>>, post |-> <<>>]
        ELSE Bind(RangeLoop(s, ai, ai, bi, <<>>, Len(s) + 1, 0), LAMBDA r :
                 [found |-> TRUE,
                  pre |-> SubSeq(s, 1, r.start - 1),
                  body |-> SubSeq(s, r.start + 1, r.end - 1),
                  post |-> SubSeq(s, r.end + 1, Len(s))])))

\* s.split(/\.\./).
SplitDots(s) ==
    LET Dots(j) == Bind({k \in 1..(j - 1) : s[k] # "."}, LAMBDA others :
                       j - 1 - (IF others = {} THEN 0 ELSE Max(others)))
    IN  Pieces(s, {j \in 1..(Len(s) - 1) :
                      s[j] = "." /\ s[j + 1] = "." /\ Dots(j) % 2 = 0}, 2)

\* /^-?\d+\.\.-?\d+(?:\.\.-?\d+)?$/.test(body).
IsNumericSequence(body) ==
    Bind(SplitDots(body), LAMBDA n :
        Len(n) \in {2, 3} /\ \A k \in DOMAIN n : IsIntegerText(n[k]))

\* /^[a-zA-Z]\.\.[a-zA-Z](?:\.\.-?\d+)?$/.test(body).
IsAlphaSequence(body) ==
    Bind(SplitDots(body), LAMBDA n :
        /\ Len(n) \in {2, 3}
        /\ \A k \in 1..2 : Len(n[k]) = 1 /\ n[k][1] \in AsciiLetters
        /\ Len(n) = 3 => IsIntegerText(n[3]))

\* numeric(s).
Numeric(s) == IF IsIntegerText(s) THEN IntegerOf(s) ELSE CharCode(s[1])

\* isPadded(el): /^-?0\d/.test(el).
IsPadded(el) ==
    LET from == IF At(el, 1) = "-" THEN 2 ELSE 1
    IN  At(el, from) = "0" /\ IsDigit(At(el, from + 1))

\* The texts of the sequence {x..y} or {x..y..incr} with parts n.  With
\* an increment of 0 the loop pushes texts until the array can take no more
\* and throws a RangeError.
Sequence(n, isAlpha) ==
    LET x == Numeric(n[1])
        y == Numeric(n[2])
        width == IF Len(n[1]) > Len(n[2]) THEN Len(n[1]) ELSE Len(n[2])
        step == IF Len(n) = 3 THEN Numeric(n[3]) ELSE 1
        incr == IF step < 0 THEN - step ELSE step
        pad == \E k \in DOMAIN n : IsPadded(n[k])
        count == (IF y < x THEN x - y ELSE y - x) \div incr + 1
        Value(k) == IF y < x THEN x - (k - 1) * incr ELSE x + (k - 1) * incr
        Text(i) ==
            IF isAlpha
            THEN (IF FromCharCode(i) = "\\" THEN <<>> ELSE <<FromCharCode(i)>>)
            ELSE Bind(IntToText(i), LAMBDA c :
                     IF pad /\ width > Len(c)
                     THEN (IF i < 0
                           THEN <<"-">> \o [z \in 1..(width - Len(c)) |-> "0"]
                                \o SubSeq(c, 2, Len(c))
                           ELSE [z \in 1..(width - Len(c)) |-> "0"] \o c)
                     ELSE c)
    IN  IF incr = 0 THEN <<<<RangeError>>>>
        ELSE [k \in 1..count |-> Text(Value(k))]

RECURSIVE ParseCommaParts(_)
\* parseCommaParts(s): the parts between the commas outside braces.
ParseCommaParts(s) ==
    IF s = <<>> THEN <<<<>>>>
    ELSE Bind(Balanced(s), LAMBDA m :
        IF ~m.found THEN Split(s, ",")
        ELSE Bind(Split(m.pre, ","), LAMBDA p :
             Bind([p EXCEPT ![Len(p)] = @ \o <<"{">> \o m.body \o <<"}">>],
                  LAMBDA q :
                 IF m.post = <<>> THEN q
                 ELSE Bind(ParseCommaParts(m.post), LAMBDA postParts :
                          [q EXCEPT ![Len(q)] = @ \o postParts[1]]
                          \o SubSeq(postParts, 2, Len(postParts))))))

\* /,.*\}/ matches in post.
CommaThenClose(post) ==
    \E i \in DOMAIN post : \E j \in DOMAIN post :
        /\ i < j
        /\ post[i] = ","
        /\ post[j] = "}"
        /\ \A k \in (i + 1)..(j - 1) : post[k] \notin LineTerminators

RECURSIVE Expand(_, _)
RECURSIVE ExpandAll(_, _, _)

\* The concatenation of expand(n[lo]), ..., expand(n[hi]).
ExpandAll(n, lo, hi) ==
    IF lo > hi THEN <<>>
    ELSE IF lo = hi THEN Expand(n[lo], FALSE)
    ELSE Bind(ExpandAll(n, lo, (lo + hi) \div 2), LAMBDA left :
             left \o ExpandAll(n, (lo + hi) \div 2 + 1, hi))

\* expand(str, isTop).
Expand(str, isTop) ==
    Bind(Balanced(str), LAMBDA m :
    IF ~m.found \/ At(m.pre, Len(m.pre)) = "$" THEN <<str>>
    ELSE
    Bind(IsAlphaSequence(m.body), LAMBDA isAlpha :
    Bind(isAlpha \/ IsNumericSequence(m.body), LAMBDA isSequence :
    IF ~isSequence /\ Positions(m.body, ",") = {}
    THEN (IF CommaThenClose(m.post)
          THEN Expand(m.pre \o <<"{">> \o m.body \o <<EscClose>> \o m.post,
                      FALSE)
          ELSE <<str>>)
    ELSE
    Bind(IF m.post # <<>> THEN Expand(m.post, FALSE) ELSE <<<<>>>>,
         LAMBDA post :
    Bind(IF isSequence THEN SplitDots(m.body) ELSE ParseCommaParts(m.body),
         LAMBDA parts :
    Bind(IF ~isSequence /\ Len(parts) = 1
         THEN Bind(Expand(parts[1], FALSE), LAMBDA inner :
                  [k \in DOMAIN inner |-> <<"{">> \o inner[k] \o <<"}">>])
         ELSE parts, LAMBDA n :
    IF ~isSequence /\ Len(parts) = 1 /\ Len(n) = 1
    THEN [k \in DOMAIN post |-> m.pre \o n[1] \o post[k]]
    ELSE
    Bind(IF isSequence THEN Sequence(n, isAlpha)
         ELSE ExpandAll(n, 1, Len(n)), LAMBDA N :
    Bind([k \in 1..(Len(N) * Len(post)) |->
            m.pre \o N[(k - 1) \div Len(post) + 1]
                  \o post[((k - 1) % Len(post)) + 1]], LAMBDA all :
        IF isTop /\ ~isSequence THEN SelectSeq(all, LAMBDA e : e # <<>>)
        ELSE all))))))))

\* /\{(?:(?!\{).)*\}/.test(pattern).
HasBraceSet(pattern) ==
    \E i \in DOMAIN pattern : \E j \in DOMAIN pattern :
        /\ i < j
        /\ pattern[i] = "{"
        /\ pattern[j] = "}"
        /\ \A k \in (i + 1)..(j - 1) :
               pattern[k] \notin LineTerminators \cup {"{"}

\* braceExpand of minimatch: the patterns the brace sets of pattern stand
\* for.
BraceExpand(pattern) ==
    IF ~HasBraceSet(pattern) THEN <<pattern>>
    ELSE Bind(IF SubSeq(pattern, 1, 2) = <<"{", "}">>
              THEN <<"\\", "{", "\\", "}">> \o SubSeq(pattern, 3, Len(pattern))
              ELSE pattern, LAMBDA str :
         Bind(Expand(EscapeBraces(str), TRUE), LAMBDA all :
             [k \in DOMAIN all |-> UnescapeBraces(all[k])]))

----------------------------------------------------------------------------
(* minimatch *)

ReSpecials ==
    {"(", ")", ".", "*", "{", "}", "+", "?", "[", "]", "^", "$", "\\", "!"}

\* Any single character but the slash.
Qmark == <<"[", "^", "/", "]">>

\* Any number of characters but slashes.
Star == Qmark \o <<"*", "?">>

\* What opens and what closes the translation of a pattern list.
OpenOf(type) ==
    IF type = "!" THEN <<"(", "?", ":", "(", "?", "!", "(", "?", ":">>
    ELSE <<"(", "?", ":">>

CloseOf(type) ==
    CASE type = "!" -> <<")", ")">> \o Star \o <<")">>
      [] type = "?" -> <<")", "?">>
      [] type = "+" -> <<")", "+">>
      [] type = "*" -> <<")", "*">>
      [] OTHER -> <<")">>

\* clearStateChar.
ClearStateChar(st) ==
    IF st.stateChar = "" THEN st
    ELSE IF st.stateChar = "*"
    THEN [st EXCEPT !.re = @ \o Star, !.hasMagic = TRUE, !.stateChar = ""]
    ELSE IF st.stateChar = "?"
    THEN [st EXCEPT !.re = @ \o Qmark, !.hasMagic = TRUE, !.stateChar = ""]
    ELSE [st EXCEPT !.re = @ \o <<"\\", st.stateChar>>, !.stateChar = ""]

\* globUnescape: s.replace(/\\(.)/g, "$1").
GlobUnescape(s) ==
    LET Piece(j) == IF /\ s[j] = "\\"
                       /\ j < Len(s)
                       /\ s[j + 1] \notin LineTerminators
                       /\ RunBefore(s, j) % 2 = 0
                    THEN <<>> ELSE <<s[j]>>
    IN  Flatten([j \in 1..Len(s) |-> Piece(j)], 1, Len(s))

\* tail.replace(/((?:\\{2}){0,64})(\\?)\|/g, ...): every "|" is escaped and
\* the pairs of backslashes before it are doubled.
EscapePipes(tail) ==
    LET Piece(j) ==
            IF tail[j] = "|"
            THEN Bind(RunBefore(tail, j), LAMBDA r :
                     [k \in 1..(4 * (r \div 2) + 1 - r) |-> "\\"] \o <<"|">>)
            ELSE <<tail[j]>>
    IN  Flatten([j \in 1..Len(tail) |-> Piece(j)], 1, Len(tail))

RECURSIVE CleanAfter(_, _)
\* n times s.replace(/\)[+*?]?/, "").
CleanAfter(s, n) ==
    IF n = 0 THEN s
    ELSE Bind(IndexOf(s, ")", 1), LAMBDA j :
             IF j = 0 THEN s
             ELSE CleanAfter(SubSeq(s, 1, j - 1)
                             \o SubSeq(s, IF At(s, j + 1) \in {"+", "*", "?"}
                                          THEN j + 2 ELSE j + 1, Len(s)),
                             n - 1))

\* The state of parse before the first character of a pattern.
ParseStart ==
    [re |-> <<>>, hasMagic |-> FALSE, escaping |-> FALSE, stateChar |-> "",
     inClass |-> FALSE, classStart |-> 0, reClassStart |-> 0,
     stack |-> <<>>, negs |-> <<>>]

RECURSIVE ParseBody(_, _)
RECURSIVE ParseLoop(_, _, _, _)

\* parse(cs, SUBPARSE): the source and hasMagic.  For "" and "**" parse
\* returns no pair, and the members read from what it returns are undefined.
SubParse(cs) ==
    IF cs = <<>> \/ cs = <<"*", "*">>
    THEN [re |-> <<"u", "n", "d", "e", "f", "i", "n", "e", "d">>,
          hasMagic |-> FALSE]
    ELSE ParseBody(cs, TRUE)

\* The body of the loop of parse for character i of the pattern.
ParseStep(pattern, st, i) ==
    LET c == pattern[i]
        Add(s, text) == [s EXCEPT !.re = @ \o text]
    IN  IF st.escaping /\ c \in ReSpecials
        THEN [st EXCEPT !.re = @ \o <<"\\", c>>, !.escaping = FALSE]
        ELSE
        CASE c = "\\" -> [ClearStateChar(st) EXCEPT !.escaping = TRUE]
          [] c \in {"?", "*", "+", "@", "!"} ->
                IF st.inClass
                THEN Add(st, IF c = "!" /\ i = st.classStart + 1 THEN <<"^">>
                             ELSE <<c>>)
                ELSE [ClearStateChar(st) EXCEPT !.stateChar = c]
          [] c = "(" ->
                IF st.inClass THEN Add(st, <<"(">>)
                ELSE IF st.stateChar = "" THEN Add(st, <<"\\", "(">>)
                ELSE [st EXCEPT
                        !.stack = Append(@, [type |-> st.stateChar,
                                             reStart |-> Len(st.re)]),
                        !.re = @ \o OpenOf(st.stateChar),
                        !.stateChar = ""]
          [] c = ")" ->
                IF st.inClass \/ st.stack = <<>> THEN Add(st, <<"\\", ")">>)
                ELSE Bind(ClearStateChar(st), LAMBDA s :
                     Bind(s.stack[Len(s.stack)], LAMBDA pl :
                         [s EXCEPT
                            !.hasMagic = TRUE,
                            !.stack = SubSeq(@, 1, Len(@) - 1),
                            !.re = @ \o CloseOf(pl.type),
                            !.negs =
                                IF pl.type = "!"
                                THEN Append(@, [reStart |-> pl.reStart,
                                                reEnd |-> Len(s.re)
                                                    + Len(CloseOf(pl.type))])
                                ELSE @]))
          [] c = "|" ->
                IF st.inClass \/ st.stack = <<>> \/ st.escaping
                THEN [st EXCEPT !.re = @ \o <<"\\", "|">>,
                                !.escaping = FALSE]
                ELSE Add(ClearStateChar(st), <<"|">>)
          [] c = "[" ->
                Bind(ClearStateChar(st), LAMBDA s :
                    IF s.inClass THEN Add(s, <<"\\", "[">>)
                    ELSE [s EXCEPT !.inClass = TRUE,
                                   !.classStart = i,
                                   !.reClassStart = Len(s.re),
                                   !.re = @ \o <<"[">>])
          [] c = "]" ->
                IF i = st.classStart + 1 \/ ~st.inClass
                THEN [st EXCEPT !.re = @ \o <<"\\", "]">>,
                                !.escaping = FALSE]
                ELSE Bind(SubSeq(pattern, st.classStart + 1, i - 1),
                          LAMBDA cs :
                     IF RegExp(<<"[">> \o cs \o <<"]">>).bad
                     THEN Bind(SubParse(cs), LAMBDA sp :
                              [st EXCEPT
                                 !.re = SubSeq(@, 1, st.reClassStart)
                                        \o <<"\\", "[">> \o sp.re
                                        \o <<"\\", "]">>,
                                 !.hasMagic = @ \/ sp.hasMagic,
                                 !.inClass = FALSE])
                     ELSE [st EXCEPT !.hasMagic = TRUE,
                                     !.inClass = FALSE,
                                     !.re = @ \o <<"]">>])
          [] OTHER ->
                Bind(ClearStateChar(st), LAMBDA s :
                    IF s.escaping
                    THEN [s EXCEPT !.escaping = FALSE, !.re = @ \o <<c>>]
                    ELSE IF c \in ReSpecials /\ ~(c = "^" /\ s.inClass)
                    THEN Add(s, <<"\\", c>>)
                    ELSE Add(s, <<c>>))

\* The loop of parse over the characters lo .. hi of the pattern.
ParseLoop(pattern, st, lo, hi) ==
    IF lo > hi THEN st
    ELSE IF lo = hi THEN ParseStep(pattern, st, lo)
    ELSE Bind(ParseLoop(pattern, st, lo, (lo + hi) \div 2), LAMBDA mid :
             ParseLoop(pattern, mid, (lo + hi) \div 2 + 1, hi))

\* parse after its loop, for a class left open: the class is read again as
\* a pattern after a literal "[".
CloseClass(pattern, st) ==
    IF ~st.inClass THEN st
    ELSE Bind(SubParse(SubSeq(pattern, st.classStart + 1, Len(pattern))),
              LAMBDA sp :
             [st EXCEPT !.re = SubSeq(@, 1, st.reClassStart)
                               \o <<"\\", "[">> \o sp.re,
                        !.hasMagic = @ \/ sp.hasMagic])

RECURSIVE CloseLists(_)
\* parse after its loop, for the pattern lists left open: what opened them
\* becomes literal.
CloseLists(st) ==
    IF st.stack = <<>> THEN st
    ELSE Bind(st.stack[Len(st.stack)], LAMBDA pl :
         Bind(EscapePipes(Slice(st.re, pl.reStart + Len(OpenOf(pl.type)),
                                Len(st.re))), LAMBDA tail :
             CloseLists([st EXCEPT
                 !.stack = SubSeq(@, 1, Len(@) - 1),
                 !.hasMagic = TRUE,
                 !.re = Slice(@, 0, pl.reStart)
                        \o (IF pl.type = "*" THEN Star
                            ELSE IF pl.type = "?" THEN Qmark
                            ELSE <<"\\", pl.type>>)
                        \o <<"\\", "(">> \o tail])))

RECURSIVE NegativeLists(_, _, _, _)
\* parse after its loop, for the negated lists n, n - 1, ..., 1: what
\* follows the list goes into its lookahead.
NegativeLists(re, negs, n, isSub) ==
    IF n = 0 THEN re
    ELSE Bind(negs[n], LAMBDA nl :
         Bind(Slice(re, 0, nl.reStart), LAMBDA nlBefore :
         Bind(Slice(re, nl.reEnd, Len(re)), LAMBDA nlAfter :
         Bind(CleanAfter(nlAfter, Cardinality(Positions(nlBefore, "("))),
              LAMBDA cleanAfter :
             NegativeLists(
                 nlBefore \o Slice(re, nl.reStart, nl.reEnd - 8)
                 \o cleanAfter
                 \o (IF cleanAfter = <<>> /\ ~isSub THEN <<"$">> ELSE <<>>)
                 \o Slice(re, nl.reEnd - 8, nl.reEnd) \o nlAfter,
                 negs, n - 1, isSub)))))

\* parse from the loop on: the source of the regular expression, and
\* whether the pattern has magic.
ParseBody(pattern, isSub) ==
    Bind(ParseLoop(pattern, ParseStart, 1, Len(pattern)), LAMBDA looped :
    Bind(CloseLists(CloseClass(pattern, looped)), LAMBDA closed :
    Bind(ClearStateChar(closed), LAMBDA cleared :
    Bind(IF cleared.escaping THEN cleared.re \o <<"\\", "\\">>
         ELSE cleared.re, LAMBDA re :
    Bind(NegativeLists(re, cleared.negs, Len(cleared.negs), isSub),
         LAMBDA negated :
        [re |-> (IF At(re, 1) \in {"[", ".", "("} /\ pattern[1] # "."
                 THEN <<"(", "?", "!", "\\", ".", ")">> ELSE <<>>)
                \o (IF negated # <<>> /\ cleared.hasMagic
                    THEN <<"(", "?", "=", ".", ")">> ELSE <<>>)
                \o negated,
         hasMagic |-> cleared.hasMagic])))))

\* parse(pattern) for one part of a path: the globstar, a text to compare
\* with, or a regular expression.
GlobStar == [kind |-> "globstar", s |-> <<>>, regExp |-> RegExp(<<>>)]

Parse(pattern) ==
    IF pattern = <<"*", "*">> THEN GlobStar
    ELSE IF pattern = <<>>
    THEN [kind |-> "text", s |-> <<>>, regExp |-> RegExp(<<>>)]
    ELSE Bind(ParseBody(pattern, FALSE), LAMBDA parsed :
             IF ~parsed.hasMagic
             THEN [kind |-> "text", s |-> GlobUnescape(pattern),
                   regExp |-> RegExp(<<>>)]
             ELSE [kind |-> "regExp", s |-> <<>>,
                   regExp |-> RegExp(<<"^">> \o parsed.re \o <<"$">>)])

\* s.split(/\/+/).
SlashSplit(s) ==
    Bind(SortedSeq({i \in 1..(Len(s) + 1) :
                       \/ i = 1
                       \/ /\ s[i - 1] = "/"
                          /\ (i = Len(s) + 1 \/ s[i] # "/")}), LAMBDA starts :
        [k \in DOMAIN starts |->
            Bind(IndexOf(s, "/", starts[k]), LAMBDA slash :
                SubSeq(s, starts[k],
                       IF slash = 0 THEN Len(s) ELSE slash - 1))])

\* A part of a path that the globstar does not pass: ".", ".." and every
\* name that starts with a dot.
DotPart(part) == At(part, 1) = "."

RECURSIVE MatchOne(_, _, _, _)
\* matchOne(file, pattern) from part fi of the file and part pi of the
\* pattern on.
MatchOne(file, pattern, fi, pi) ==
    IF fi <= Len(file) /\ pi <= Len(pattern)
    THEN (IF pattern[pi].kind = "globstar"
          THEN (IF pi = Len(pattern)
                THEN \A k \in fi..Len(file) : ~DotPart(file[k])
                ELSE \E fr \in fi..Len(file) :
                        /\ \A k \in fi..(fr - 1) : ~DotPart(file[k])
                        /\ MatchOne(file, pattern, fr, pi + 1))
          ELSE /\ IF pattern[pi].kind = "text" THEN file[fi] = pattern[pi].s
                  ELSE Test(pattern[pi].regExp, file[fi])
               /\ MatchOne(file, pattern, fi + 1, pi + 1))
    ELSE IF fi > Len(file) /\ pi > Len(pattern) THEN TRUE
    ELSE IF fi > Len(file) THEN FALSE
    ELSE fi = Len(file) /\ file[fi] = <<>>

\* parseNegate: the number of "!" the pattern starts with.
NegateOffset(pattern) ==
    Bind({k \in DOMAIN pattern : pattern[k] # "!"}, LAMBDA others :
        IF others = {} THEN Len(pattern) ELSE Min(others) - 1)

\* minimatch(p, pattern) throws: the expansion of the pattern's braces
\* throws a RangeError.
ExpandThrows(pattern) ==
    /\ pattern # <<>>
    /\ pattern[1] # "#"
    /\ Bind(BraceExpand(SubSeq(pattern, NegateOffset(pattern) + 1,
                               Len(pattern))), LAMBDA globSet :
           \E g \in DOMAIN globSet : Positions(globSet[g], RangeError) # {})

\* minimatch(p, pattern) without options: a pattern that starts with "#"
\* is a comment and matches nothing, the empty pattern matches the empty
\* path, every leading "!" negates the result.
Minimatch(p, pattern) ==
    IF At(pattern, 1) = "#" THEN FALSE
    ELSE IF pattern = <<>> THEN p = <<>>
    ELSE Bind(NegateOffset(pattern), LAMBDA negateOffset :
         Bind(BraceExpand(SubSeq(pattern, negateOffset + 1, Len(pattern))),
              LAMBDA globSet :
         Bind(SlashSplit(p), LAMBDA f :
             (\E g \in DOMAIN globSet :
                 Bind(SlashSplit(globSet[g]), LAMBDA globParts :
                     MatchOne(f, [k \in DOMAIN globParts |->
                                     Parse(globParts[k])], 1, 1)))
             # (negateOffset % 2 = 1))))

----------------------------------------------------------------------------
(* The inputs of a run *)

\* The answer the prompt asks for when the code looks good.
TextNoReviews ==
    <<"{", "\"", "r", "e", "v", "i", "e", "w", "s", "\"", ":", "[", "]", "}">>

\* One review entry.
TextOneReview ==
    <<"{", "\"", "r", "e", "v", "i", "e", "w", "s", "\"", ":", "[", "{",
      "\"", "l", "i", "n", "e", "N", "u", "m", "b", "e", "r", "\"", ":",
      "\"", "1", "0", "\"", ",", "\"", "r", "e", "v", "i", "e", "w", "C",
      "o", "m", "m", "e", "n", "t", "\"", ":", "\"", "b", "u", "g", "\"",
      "}", "]", "}">>

\* Two review entries, the second with a line number that is no number.
TextTwoReviews ==
    <<"{", "\"", "r", "e", "v", "i", "e", "w", "s", "\"", ":", "[", "{",
      "\"", "l", "i", "n", "e", "N", "u", "m", "b", "e", "r", "\"", ":",
      "7", ",", "\"", "r", "e", "v", "i", "e", "w", "C", "o", "m", "m", "e",
      "n", "t", "\"", ":", "\"", "x", "\"", "}", ",", "{", "\"", "l", "i",
      "n", "e", "N", "u", "m", "b", "e", "r", "\"", ":", "\"", "a", "b",
      "c", "\"", ",", "\"", "r", "e", "v", "i", "e", "w", "C", "o", "m",
      "m", "e", "n", "t", "\"", ":", "\"", "y", "\"", "}", "]", "}">>

\* Prose without any JSON.
TextNotJson ==
    <<"n", "o", "t", " ", "j", "s", "o", "n", " ", "a", "t", " ", "a", "l",
      "l">>

\* The empty review list wrapped in prose.
TextWrapped ==
    <<"H", "e", "r", "e", " ", "y", "o", "u", " ", "g", "o", ":", "\n", "{",
      "\"", "r", "e", "v", "i", "e", "w", "s", "\"", ":", "[", "]", "}",
      "\n", "T", "h", "a", "n", "k", "s">>

\* An object whose reviews member is a string, not a list.
TextReviewsString ==
    <<"{", "\"", "r", "e", "v", "i", "e", "w", "s", "\"", ":", "\"", "o",
      "o", "p", "s", "\"", "}">>

\* One review entry whose line number is an object with a member named
\* toString, which Number cannot convert.
TextLineObject ==
    <<"{", "\"", "r", "e", "v", "i", "e", "w", "s", "\"", ":", "[", "{", "\"",
      "l", "i", "n", "e", "N", "u", "m", "b", "e", "r", "\"", ":", "{", "\"",
      "t", "o", "S", "t", "r", "i", "n", "g", "\"", ":", "1", "}", ",", "\"",
      "r", "e", "v", "i", "e", "w", "C", "o", "m", "m", "e", "n", "t", "\"",
      ":", "\"", "x", "\"", "}", "]", "}">>

\* What the model call does for one hunk.
ModelOutcomes ==
    {Throws, NoContent, Content(TextNoReviews), Content(TextOneReview),
     Content(TextTwoReviews), Content(TextNotJson), Content(TextWrapped),
     Content(TextReviewsString), Content(TextLineObject)}

\* A diff has at most MaxFiles files and MaxHunks hunks in all.
MaxFiles == 2

MaxHunks == 3

FileA == JStr(<<"a", ".", "t", "s">>)

FileB == JStr(<<"b", ".", "t", "s">>)

\* The values of file.to (parse-diff declares to?: string): a path, the
\* deleted-file sentinel, or no path at all.
ToValues == {FileA, FileB, DevNull, JUndefined}

\* The chunks of a file with n hunks, each known by its first new line.
Chunks(n) == [i \in 1..n |-> [newStart |-> i]]

RECURSIVE FileLists(_, _)
\* What parseDiff can return: up to n files with up to hunks hunks in all.
FileLists(n, hunks) ==
    IF n = 0 THEN {<<>>}
    ELSE {<<>>} \cup
         UNION {{<<[to |-> to, chunks |-> Chunks(c)]>> \o rest :
                    rest \in FileLists(n - 1, hunks - c)} :
                to \in ToValues, c \in 0..hunks}

\* What getDiff's API call does: reject, or resolve with the diff text, which
\* is empty or parses to a list of files.
DiffOutcomes ==
    {[kind |-> "throw", files |-> <<>>], [kind |-> "empty", files |-> <<>>]}
    \cup {[kind |-> "diff", files |-> fs] : fs \in FileLists(MaxFiles, MaxHunks)}

\* eventData.action of the triggering event.
EventActions == {"opened", "synchronize", "closed"}

\* The "exclude" input of the action: unset, one file name, a pattern with
\* a star, a negated pattern, a comment, a list of two patterns, a brace
\* sequence with increment 0, and a file name before such a sequence.
\*   ""   "b.ts"   "*.ts"   "!b.ts"   "#b.ts"   "a.ts, b.t?"
\*   "{1..2..0}"   "b.ts,{1..2..0}"
ExcludeInputs ==
    {<<>>,
     <<"b", ".", "t", "s">>,
     <<"*", ".", "t", "s">>,
     <<"!", "b", ".", "t", "s">>,
     <<"#", "b", ".", "t", "s">>,
     <<"a", ".", "t", "s", ",", " ", "b", ".", "t", "?">>,
     <<"{", "1", ".", ".", "2", ".", ".", "0", "}">>,
     <<"b", ".", "t", "s", ",", "{", "1", ".", ".", "2", ".", ".", "0", "}">>}

----------------------------------------------------------------------------
(* main, lines 200-258, and analyzeCode, lines 66-90 *)

\* A check of line 210 that lets every event through.
SupportedAny(action) == TRUE

\* Line 210.
Supported(action) == action = "opened" \/ action = "synchronize"

\* Line 222: !diff, for a diff that is null (getDiff caught an error) or "".
NoDiff(kind) == kind \in {"throw", "empty"}

\* Lines 223-224 ending the process with exit code 1 instead.
NoDiffExitFails == "fail"

\* Lines 223-224: main returns, its promise resolves and the process ends
\* with exit code 0.
NoDiffExit == "ok"

\* Lines 231-234.
ExcludePatterns(input) ==
    Bind(Split(input, ","), LAMBDA pieces :
        [k \in DOMAIN pieces |-> Trim(pieces[k])])

\* Line 238: file.to ?? "".
PathOrEmpty(to) == IF to.t \in {"undefined", "null"} THEN <<>> ELSE to.s

\* Lines 236-240.
FilterDiff(files, patterns) ==
    LET Keep(f) == ~\E k \in DOMAIN patterns :
                      Minimatch(PathOrEmpty(f.to), patterns[k])
    IN  SelectSeq(files, Keep)

\* Lines 236-240 throw: some() reaches, for a file that no pattern before
\* it matches, a pattern on which minimatch throws.
FilterThrows(files, patterns) ==
    \E i \in DOMAIN files : \E k \in DOMAIN patterns :
        /\ ExpandThrows(patterns[k])
        /\ \A j \in 1..(k - 1) :
               /\ ~ExpandThrows(patterns[j])
               /\ ~Minimatch(PathOrEmpty(files[i].to), patterns[j])

\* Line 73 without its check.
IsDeletedNever(file) == FALSE

\* Line 73.
IsDeleted(file) == file.to = DevNull

RECURSIVE HunkFrom(_, _, _)
\* The hunk the loops of lines 72 and 75 reach next, from chunk hi of file
\* fi on; file 0 when the loops end.
HunkFrom(files, fi, hi) ==
    IF fi > Len(files) THEN [file |-> 0, chunk |-> 0]
    ELSE IF IsDeleted(files[fi]) \/ hi > Len(files[fi].chunks)
    THEN HunkFrom(files, fi + 1, 1)
    ELSE [file |-> fi, chunk |-> hi]

\* The text a template literal gives for file.to.
TemplateText(to) ==
    IF to.t = "str" THEN to.s
    ELSE IF to.t = "null" THEN <<"n", "u", "l", "l">>
    ELSE <<"u", "n", "d", "e", "f", "i", "n", "e", "d">>

\* createPrompt, lines 92-122: the fixed template with the file and the
\* hunk filled in (the title and description of the pull request, the same
\* in every prompt of a run, are left out).
createPrompt(file, chunk) ==
    [path |-> TemplateText(file.to), hunk |-> chunk.newStart]

\* Line 83 putting the new comments in front (unshift for push).
PushAllFront(comments, newComments) == newComments \o comments

\* Line 83.
PushAll(comments, newComments) == comments \o newComments

\* Line 246 without its check.
ShouldSubmitAlways(comments) == TRUE

\* Line 246.
ShouldSubmit(comments) == Len(comments) > 0

VARIABLES
    pc,           \* where main is suspended, or "done"
    eventAction,  \* eventData.action
    excludeInput, \* core.getInput("exclude")
    prDetails,    \* getPRDetails: "pending", "ok" or "threw"
    diff,         \* what getDiff gave: "none" yet, "throw", "empty", "diff"
    diffCalls,    \* how many times getDiff called the API
    files,        \* filteredDiff
    at,           \* the hunk whose model call is awaited
    prompts,      \* the prompts built and sent, in order
    aiLog,        \* what getAIResponse returned for each prompt (line 78)
    comments,     \* the accumulated comments of analyzeCode
    analysis,     \* analyzeCode: "none", "running", "returned" or "threw"
    reviews,      \* the comment lists given to createReviewComment
    exit,         \* "running", "ok" (exit code 0) or "fail" (exit code 1)
    sample,       \* a response text under interpretation alone
    ipc,          \* "off", "input", "interpreted" or "mapped"
    interp,       \* what getAIResponse returned for the sample
    mapped        \* what lines 79-85 made of it

vars == <<pc, eventAction, excludeInput, prDetails, diff, diffCalls, files, at,
          prompts, aiLog, comments, analysis, reviews, exit,
          sample, ipc, interp, mapped>>

runVars == <<pc, eventAction, excludeInput, prDetails, diff, diffCalls, files,
             at, prompts, aiLog, comments, analysis, reviews, exit>>

interpVars == <<sample, ipc, interp, mapped>>

NoSample == [kind |-> "none", pre |-> <<>>, obj |-> <<>>, post |-> <<>>,
             value |-> JUndefined]

NoMapped == [threw |-> FALSE, comments |-> <<>>]

InitRun ==
    /\ pc = "start"
    /\ eventAction \in EventActions
    /\ excludeInput \in ExcludeInputs
    /\ prDetails = "pending"
    /\ diff = "none"
    /\ diffCalls = 0
    /\ files = <<>>
    /\ at = [file |-> 0, chunk |-> 0]
    /\ prompts = <<>>
    /\ aiLog = <<>>
    /\ comments = <<>>
    /\ analysis = "none"
    /\ reviews = <<>>
    /\ exit = "running"

Init ==
    /\ InitRun
    /\ sample = NoSample
    /\ ipc = "off"
    /\ interp = JUndefined
    /\ mapped = NoMapped

\* main starts: getPRDetails reads the event and asks for the pull request.
Start ==
    /\ pc = "start"
    /\ pc' = "awaitPR"
    /\ UNCHANGED <<eventAction, excludeInput, prDetails, diff, diffCalls,
                   files, at, prompts, aiLog, comments, analysis,
                   reviews, exit>>
    /\ UNCHANGED interpVars

\* The pull request arrives or the call rejects (main rejects, line 260
\* exits with code 1).  Lines 203-220: a supported event fetches the diff,
\* any other event returns.
PRReturn(ok) ==
    /\ pc = "awaitPR"
    /\ prDetails' = IF ok THEN "ok" ELSE "threw"
    /\ IF ~ok THEN pc' = "done" /\ exit' = "fail" /\ diffCalls' = diffCalls
       ELSE IF Supported(eventAction)
       THEN pc' = "awaitDiff" /\ exit' = exit /\ diffCalls' = diffCalls + 1
       ELSE pc' = "done" /\ exit' = "ok" /\ diffCalls' = diffCalls
    /\ UNCHANGED <<eventAction, excludeInput, diff, files, at, prompts,
                   aiLog, comments, analysis, reviews>>
    /\ UNCHANGED interpVars

\* analyzeCode's loops from chunk hi of file fi of fs on, with cs
\* accumulated: the next hunk's prompt is built and sent, or the loops end,
\* analyzeCode returns and lines 246-257 submit a non-empty list.
Continue(fs, fi, hi, cs) ==
    Bind(HunkFrom(fs, fi, hi), LAMBDA nxt :
        /\ at' = nxt
        /\ IF nxt.file # 0
           THEN /\ prompts' = Append(prompts,
                       [file |-> nxt.file, chunk |-> nxt.chunk,
                        prompt |-> createPrompt(fs[nxt.file],
                                       fs[nxt.file].chunks[nxt.chunk])])
                /\ analysis' = "running"
                /\ pc' = "awaitAI"
                /\ reviews' = reviews
                /\ exit' = exit
           ELSE /\ prompts' = prompts
                /\ analysis' = "returned"
                /\ IF ShouldSubmit(cs)
                   THEN /\ reviews' = Append(reviews, cs)
                        /\ pc' = "awaitReview"
                        /\ exit' = exit
                   ELSE /\ reviews' = reviews
                        /\ pc' = "done"
                        /\ exit' = "ok")

\* getDiff's call ends.  Lines 222-245: without a diff main returns;
\* otherwise the diff is parsed and filtered and analyzeCode runs to its
\* first model call.  A filter that throws leaves main, and line 260 exits
\* with code 1.
DiffReturn(out) ==
    /\ pc = "awaitDiff"
    /\ diff' = out.kind
    /\ IF NoDiff(out.kind)
       THEN /\ pc' = "done"
            /\ exit' = NoDiffExit
            /\ UNCHANGED <<files, at, prompts, analysis, reviews>>
       ELSE IF FilterThrows(out.files, ExcludePatterns(excludeInput))
       THEN /\ pc' = "done"
            /\ exit' = "fail"
            /\ UNCHANGED <<files, at, prompts, analysis, reviews>>
       ELSE /\ files' = FilterDiff(out.files, ExcludePatterns(excludeInput))
            /\ Continue(files', 1, 1, <<>>)
    /\ UNCHANGED <<eventAction, excludeInput, prDetails, diffCalls, aiLog, comments>>
    /\ UNCHANGED interpVars

\* The model call of the awaited hunk ends.  Lines 77-85: the response is
\* interpreted and mapped and the comments are pushed; a TypeError of
\* createComment leaves analyzeCode and main, and line 260 exits with code 1.
AIReturn(out) ==
    /\ pc = "awaitAI"
    /\ aiLog' = Append(aiLog, getAIResponse(out))
    /\ Bind(HunkComments(files[at.file].to, aiLog'[Len(aiLog')]), LAMBDA new :
           IF new.threw
           THEN /\ analysis' = "threw"
                /\ pc' = "done"
                /\ exit' = "fail"
                /\ UNCHANGED <<at, prompts, comments, reviews>>
           ELSE /\ comments' = PushAll(comments, new.comments)
                /\ Continue(files, at.file, at.chunk + 1, comments'))
    /\ UNCHANGED <<eventAction, excludeInput, prDetails, diff, diffCalls,
                   files>>
    /\ UNCHANGED interpVars

\* createReview's call ends: main returns, or rejects and line 260 exits
\* with code 1.
ReviewReturn(ok) ==
    /\ pc = "awaitReview"
    /\ pc' = "done"
    /\ exit' = IF ok THEN "ok" ELSE "fail"
    /\ UNCHANGED <<eventAction, excludeInput, prDetails, diff, diffCalls,
                   files, at, prompts, aiLog, comments, analysis,
                   reviews>>
    /\ UNCHANGED interpVars

Next ==
    \/ Start
    \/ \E ok \in BOOLEAN : PRReturn(ok)
    \/ \E out \in DiffOutcomes : DiffReturn(out)
    \/ \E out \in ModelOutcomes : AIReturn(out)
    \/ \E ok \in BOOLEAN : ReviewReturn(ok)

Spec == Init /\ [][Next]_vars

----------------------------------------------------------------------------
(* The response interpreter alone, on response texts built from parts *)

\* JSON objects as texts, each with the value it denotes.
\* {"reviews":[]}
ObjNoReviews ==
    [text |->
        <<"{", "\"", "r", "e", "v", "i", "e", "w", "s", "\"", ":", "[", "]",
          "}">>,
     value |->
        JObj(<<[key |-> <<"r", "e", "v", "i", "e", "w", "s">>,
          val |-> JArr(<<>>)]>>)]

\* {}
ObjEmpty ==
    [text |->
        <<"{", "}">>,
     value |->
        JObj(<<>>)]

\* {"reviews":[{"lineNumber":"10","reviewComment":"bug"}]}
ObjOneReview ==
    [text |->
        <<"{", "\"", "r", "e", "v", "i", "e", "w", "s", "\"", ":", "[", "{",
          "\"", "l", "i", "n", "e", "N", "u", "m", "b", "e", "r", "\"", ":",
          "\"", "1", "0", "\"", ",", "\"", "r", "e", "v", "i", "e", "w",
          "C", "o", "m", "m", "e", "n", "t", "\"", ":", "\"", "b", "u", "g",
          "\"", "}", "]", "}">>,
     value |->
        JObj(<<[key |-> <<"r", "e", "v", "i", "e", "w", "s">>,
          val |-> JArr(<<JObj(<<[key |-> <<"l", "i", "n", "e", "N", "u", "m",
          "b", "e", "r">>, val |-> JStr(<<"1", "0">>)], [key |-> <<"r", "e",
          "v", "i", "e", "w", "C", "o", "m", "m", "e", "n", "t">>,
          val |-> JStr(<<"b", "u", "g">>)]>>)>>)]>>)]

\* { "reviews" : [ {"lineNumber": 42, "reviewComment": "x"} ] }
ObjSpaced ==
    [text |->
        <<"{", " ", "\"", "r", "e", "v", "i", "e", "w", "s", "\"", " ", ":",
          " ", "[", " ", "{", "\"", "l", "i", "n", "e", "N", "u", "m", "b",
          "e", "r", "\"", ":", " ", "4", "2", ",", " ", "\"", "r", "e", "v",
          "i", "e", "w", "C", "o", "m", "m", "e", "n", "t", "\"", ":", " ",
          "\"", "x", "\"", "}", " ", "]", " ", "}">>,
     value |->
        JObj(<<[key |-> <<"r", "e", "v", "i", "e", "w", "s">>,
          val |-> JArr(<<JObj(<<[key |-> <<"l", "i", "n", "e", "N", "u", "m",
          "b", "e", "r">>, val |-> JInt(42)], [key |-> <<"r", "e",
          "v", "i", "e", "w", "C", "o", "m", "m", "e", "n", "t">>,
          val |-> JStr(<<"x">>)]>>)>>)]>>)]

\* {"reviews":null}
ObjReviewsNull ==
    [text |->
        <<"{", "\"", "r", "e", "v", "i", "e", "w", "s", "\"", ":", "n", "u",
          "l", "l", "}">>,
     value |->
        JObj(<<[key |-> <<"r", "e", "v", "i", "e", "w", "s">>,
          val |-> JNull]>>)]

\* {"reviews":"oops"}
ObjReviewsString ==
    [text |->
        <<"{", "\"", "r", "e", "v", "i", "e", "w", "s", "\"", ":", "\"",
          "o", "o", "p", "s", "\"", "}">>,
     value |->
        JObj(<<[key |-> <<"r", "e", "v", "i", "e", "w", "s">>,
          val |-> JStr(<<"o", "o", "p", "s">>)]>>)]

\* {"reviews":[null]}
ObjNullEntry ==
    [text |->
        <<"{", "\"", "r", "e", "v", "i", "e", "w", "s", "\"", ":", "[", "n",
          "u", "l", "l", "]", "}">>,
     value |->
        JObj(<<[key |-> <<"r", "e", "v", "i", "e", "w", "s">>,
          val |-> JArr(<<JNull>>)]>>)]

\* {"comments":[{"lineNumber":1}]}
ObjOtherKey ==
    [text |->
        <<"{", "\"", "c", "o", "m", "m", "e", "n", "t", "s", "\"", ":", "[",
          "{", "\"", "l", "i", "n", "e", "N", "u", "m", "b", "e", "r", "\"",
          ":", "1", "}", "]", "}">>,
     value |->
        JObj(<<[key |-> <<"c", "o", "m", "m", "e", "n", "t", "s">>,
          val |-> JArr(<<JObj(<<[key |-> <<"l", "i", "n", "e", "N", "u", "m",
          "b", "e", "r">>, val |-> JInt(1)]>>)>>)]>>)]

\* {"reviews":1e-400}: the literal is below every positive double and reads
\* as 0.
ObjReviewsTiny ==
    [text |->
        <<"{", "\"", "r", "e", "v", "i", "e", "w", "s", "\"", ":", "1", "e",
          "-", "4", "0", "0", "}">>,
     value |->
        JObj(<<[key |-> <<"r", "e", "v", "i", "e", "w", "s">>,
          val |-> Zero(FALSE)]>>)]

\* {"reviews":[{"lineNumber":{"toString":1},"reviewComment":"x"}]}
ObjLineObject ==
    [text |-> TextLineObject,
     value |->
        JObj(<<[key |-> ReviewsKey,
                val |-> JArr(<<JObj(<<[key |-> LineNumberKey,
                                       val |-> JObj(<<[key |-> ToStringKey,
                                                       val |-> JInt(1)]>>)],
                                      [key |-> ReviewCommentKey,
                                       val |-> JStr(<<"x">>)]>>)>>)]>>)]

Objects ==
    {ObjNoReviews, ObjEmpty, ObjOneReview, ObjSpaced,
     ObjReviewsNull, ObjReviewsString, ObjNullEntry, ObjOtherKey,
     ObjReviewsTiny, ObjLineObject}

\* Prose and fencing put before an object.
LeadingProse ==
    {<<>>,
     <<"H", "e", "r", "e", " ", "y", "o", "u", " ", "g", "o", ":", "\n">>,
     <<"\\u0060", "\\u0060", "\\u0060", "j", "s", "o", "n", "\n">>,
     <<" ", "\n">>,
     <<"U", "s", "e", " ", "{", "x", "}", ":", " ">>,
     <<"}", " ">>}

\* Prose and fencing put after an object.
TrailingProse ==
    {<<>>,
     <<"\n", "T", "h", "a", "n", "k", "s">>,
     <<"\n", "\\u0060", "\\u0060", "\\u0060">>,
     <<" ", "\n">>,
     <<" ", "{", "o", "k", "}">>,
     <<" ", "{">>}

\* Texts that hold no JSON object, each with the value the whole text denotes
\* as JSON (undefined when it is not JSON).
NoObjectTexts ==
    {[text |->
        <<"n", "o", "t", " ", "j", "s", "o", "n", " ", "a", "t", " ", "a",
          "l", "l">>,
      value |-> JUndefined],
     [text |->
        <<>>,
      value |-> JUndefined],
     [text |->
        <<" ", "\n", " ">>,
      value |-> JUndefined],
     [text |->
        <<"\\u00a0", "\\u2028", "\\ufeff">>,
      value |-> JUndefined],
     [text |->
        <<"4", "2">>,
      value |-> JInt(42)],
     [text |->
        <<"1", "e", "4", "0", "0">>,
      value |-> Infinity(FALSE)],
     [text |->
        <<"[", "1", ",", "2", "]">>,
      value |-> JArr(<<JInt(1), JInt(2)>>)],
     [text |->
        <<"n", "u", "l", "l">>,
      value |-> JNull],
     [text |->
        <<"t", "r", "u", "e">>,
      value |-> JBool(TRUE)],
     [text |->
        <<"\"", "t", "e", "x", "t", "\"">>,
      value |-> JStr(<<"t", "e", "x", "t">>)],
     [text |->
        <<"{", "\"", "r", "e", "v", "i", "e", "w", "s", "\"", ":", "[", "{",
          "\"", "l", "i", "n", "e", "N", "u", "m", "b", "e", "r", "\"", ":",
          "\"", "1", "\"">>,
      value |-> JUndefined],
     [text |->
        <<"{", "\"", "r", "e", "v", "i", "e", "w", "s", "\"", ":", "[", "{",
          "\"", "l", "i", "n", "e", "N", "u", "m", "b", "e", "r", "\"", ":",
          "\"", "1", "\"", ",", "\"", "r", "e", "v", "i", "e", "w", "C",
          "o", "m", "m", "e", "n", "t", "\"", ":", "\"", "x", "\"", "}">>,
      value |-> JUndefined]}

\* A response text under interpretation: an object between leading and
\* trailing prose ("wrapped"), or a text without an object ("plain", held in
\* pre).  value is the value of the object, or of the plain text.
Samples ==
    {[kind |-> "wrapped", pre |-> pre, obj |-> o.text, post |-> post,
      value |-> o.value] :
        pre \in LeadingProse, o \in Objects, post \in TrailingProse}
    \cup {[kind |-> "plain", pre |-> t.text, obj |-> <<>>, post |-> <<>>,
           value |-> t.value] : t \in NoObjectTexts}

SampleText(sm) == sm.pre \o sm.obj \o sm.post

InitInterp ==
    /\ pc = "off"
    /\ eventAction = "opened"
    /\ excludeInput = <<>>
    /\ prDetails = "pending"
    /\ diff = "none"
    /\ diffCalls = 0
    /\ files = <<>>
    /\ at = [file |-> 0, chunk |-> 0]
    /\ prompts = <<>>
    /\ aiLog = <<>>
    /\ comments = <<>>
    /\ analysis = "none"
    /\ reviews = <<>>
    /\ exit = "running"
    /\ sample \in Samples
    /\ ipc = "input"
    /\ interp = JUndefined
    /\ mapped = NoMapped

\* getAIResponse on a model call that resolves with the sample text.
Interpret ==
    /\ ipc = "input"
    /\ interp' = getAIResponse(Content(SampleText(sample)))
    /\ ipc' = "interpreted"
    /\ UNCHANGED <<sample, mapped>>
    /\ UNCHANGED runVars

\* Lines 79-85 on the interpreted sample, for a file with destination to.
MapSample(to) ==
    /\ ipc = "interpreted"
    /\ mapped' = HunkComments(to, interp)
    /\ ipc' = "mapped"
    /\ UNCHANGED <<sample, interp>>
    /\ UNCHANGED runVars

NextInterp ==
    \/ Interpret
    \/ \E to \in {FileA, JUndefined} : MapSample(to)

SpecInterp == InitInterp /\ [][NextInterp]_vars

----------------------------------------------------------------------------
(* Properties *)

RECURSIVE HunksUpTo(_, _)
\* The hunks of the first n files of fs that are not deleted files, in file
\* order then hunk order.
HunksUpTo(fs, n) ==
    IF n = 0 THEN <<>>
    ELSE HunksUpTo(fs, n - 1)
         \o (IF fs[n].to = DevNull THEN <<>>
             ELSE [h \in 1..Len(fs[n].chunks) |-> [file |-> n, chunk |-> h]])

AllHunks(fs) == HunksUpTo(fs, Len(fs))

Unsupported == eventAction \notin {"opened", "synchronize"}

\* The comments the k-th answered hunk contributes, read off the logged
\* interpretation: one per entry of a list, in the order of the entries,
\* for a file with a destination path; none from the hunk whose mapping
\* threw.
Contribution(k) ==
    IF /\ aiLog[k].t = "arr"
       /\ Truthy(files[prompts[k].file].to)
       /\ ~(analysis = "threw" /\ k = Len(aiLog))
    THEN [i \in 1..Len(aiLog[k].items) |->
            [body |-> Get(aiLog[k].items[i], ReviewCommentKey),
             path |-> files[prompts[k].file].to,
             line |-> ToNumber(Get(aiLog[k].items[i], LineNumberKey))]]
    ELSE <<>>

RECURSIVE Contributions(_)
Contributions(k) ==
    IF k = 0 THEN <<>> ELSE Contributions(k - 1) \o Contribution(k)

IsPrefix(a, b) == Len(a) <= Len(b) /\ SubSeq(b, 1, Len(a)) = a

\* C1: createReviewComment is called at most once in a run, only after
\* analyzeCode has returned with every hunk of every analysed file answered,
\* and only with the accumulated list when that list is non-empty; a run
\* that ends with an empty list has made no submission.
C1_SubmitOnceAfterAllHunks ==
    /\ Len(reviews) <= 1
    /\ reviews # <<>> =>
          /\ analysis = "returned"
          /\ Len(aiLog) = Len(AllHunks(files))
          /\ [k \in DOMAIN prompts |->
                [file |-> prompts[k].file, chunk |-> prompts[k].chunk]]
             = AllHunks(files)
          /\ reviews[1] = comments
          /\ Len(reviews[1]) > 0
    /\ (pc = "done" /\ comments = <<>>) => reviews = <<>>

\* A run that submitted the comments of two hunks.
C1_Witness ==
    pc = "done" /\ Len(reviews) = 1 /\ Len(aiLog) = 2 /\ exit = "ok"

\* C2: whatever the model call does for a hunk, analyzeCode does not abort
\* and every hunk of every analysed file gets its model call answered
\* before the run ends.
C2_HunkFailureIsolated ==
    /\ analysis # "threw"
    /\ (pc = "done" /\ diff = "diff") => Len(aiLog) = Len(AllHunks(files))

\* C3: every accumulated comment has a line that is a finite positive
\* integer.
C3_LinesArePositiveIntegers ==
    \A k \in DOMAIN comments : IsPositiveInteger(comments[k].line)

\* A list whose entries are all records (JSON objects).
IsRecordList(v) ==
    v.t = "arr" /\ \A i \in DOMAIN v.items : v.items[i].t = "obj"

\* C4: for any response text the interpreter returns a well-formed list of
\* records or the failure signal null.
C4_InterpreterTotal ==
    ipc \in {"interpreted", "mapped"} => (interp = JNull \/ IsRecordList(interp))

\* C5: no prompt is built for a hunk of a file whose destination is
\* "/dev/null", and no accumulated comment carries that path.
C5_DeletedFilesNeverAnalysed ==
    /\ \A k \in DOMAIN prompts :
          /\ files[prompts[k].file].to # DevNull
          /\ prompts[k].prompt.path # DevNull.s
    /\ \A k \in DOMAIN comments : comments[k].path # DevNull

\* A finished run over a diff whose first file is deleted and has a hunk and
\* whose second file was analysed and commented.
C5_Witness ==
    /\ pc = "done"
    /\ Len(files) = 2
    /\ files[1].to = DevNull
    /\ Len(files[1].chunks) > 0
    /\ Len(prompts) = 1
    /\ prompts[1].file = 2
    /\ comments # <<>>

\* C6 as stated: when diff retrieval throws or returns the empty text, no
\* review is submitted and the process exits with a failure code.
C6_NoDiffIsFatal ==
    (pc = "done" /\ diff \in {"throw", "empty"}) =>
        (reviews = <<>> /\ exit = "fail")

\* C6 amended: when diff retrieval throws or returns the empty text, no
\* prompt is sent and no review is submitted, and the run ends as a normal
\* successful run (exit code 0).
C6_NoDiffEndsNormally ==
    diff \in {"throw", "empty"} =>
        /\ pc = "done"
        /\ exit = "ok"
        /\ prompts = <<>>
        /\ aiLog = <<>>
        /\ reviews = <<>>

\* A run whose diff retrieval threw.
C6_Witness == pc = "done" /\ diff = "throw" /\ diffCalls = 1

\* C7 as stated: on an unsupported event the run ends without error, with
\* no diff retrieval, no model call and no submission, whatever the
\* external calls do.
C7_UnsupportedEventIsSilent ==
    (pc = "done" /\ Unsupported) =>
        /\ exit = "ok"
        /\ diffCalls = 0
        /\ prompts = <<>>
        /\ reviews = <<>>

\* C7 amended: on an unsupported event, once the pull-request read of
\* getPRDetails has succeeded, the run ends without error, with no diff
\* retrieval, no model call and no submission; when that read throws, the
\* run ends with a failure code, whatever the event.
C7_UnsupportedEventAfterDetails ==
    /\ (prDetails = "ok" /\ Unsupported) =>
          /\ pc = "done"
          /\ exit = "ok"
          /\ diffCalls = 0
          /\ diff = "none"
          /\ prompts = <<>>
          /\ reviews = <<>>
    /\ prDetails = "threw" =>
          /\ pc = "done"
          /\ exit = "fail"
          /\ diffCalls = 0

\* A run on a "closed" event whose pull-request read succeeded.
C7_Witness ==
    pc = "done" /\ eventAction = "closed" /\ prDetails = "ok" /\ exit = "ok"

\* C8: the accumulated comments are the concatenation, in file order then
\* hunk order then entry order, of one comment per entry of each hunk's
\* interpreted list, and a step only ever appends to them.
C8_CommentsAreConcatenation ==
    /\ [](/\ comments = Contributions(Len(aiLog))
          /\ IsPrefix([k \in DOMAIN prompts |->
                         [file |-> prompts[k].file, chunk |-> prompts[k].chunk]],
                      AllHunks(files)))
    /\ [][IsPrefix(comments, comments')]_vars

\* Comments of the two hunks of one file and of the hunk of the file after
\* it, the first hunk giving two comments and the others one each.
C8_Witness ==
    /\ Len(aiLog) = 3
    /\ prompts[1].file = 1 /\ prompts[1].chunk = 1
    /\ prompts[2].file = 1 /\ prompts[2].chunk = 2
    /\ prompts[3].file = 2 /\ prompts[3].chunk = 1
    /\ files[1].to # files[2].to
    /\ Len(Contribution(1)) = 2
    /\ Len(Contribution(2)) = 1
    /\ Len(Contribution(3)) = 1
    /\ Len(comments) = 4

\* C9: no prompt is built for a hunk of a file without a destination path,
\* and no comment is made for such a file.
C9_NoPathNoPrompt ==
    /\ \A k \in DOMAIN prompts : Truthy(files[prompts[k].file].to)
    /\ \A k \in DOMAIN comments : Truthy(comments[k].path)

\* parsed.reviews || [] for the value an object text denotes.
ReviewsOf(value) ==
    IF Truthy(Get(value, ReviewsKey)) THEN Get(value, ReviewsKey)
    ELSE JArr(<<>>)

HasChar(s, c) == \E i \in DOMAIN s : s[i] = c

\* C10 as stated: for any text that is a JSON object inside prose the
\* interpreter returns that object's reviews (the empty list when absent or
\* empty), and for a text without an object it returns null.
C10_AnyWrappedObjectExtracted ==
    ipc \in {"interpreted", "mapped"} =>
        /\ sample.kind = "wrapped" => interp = ReviewsOf(sample.value)
        /\ sample.kind = "plain" => interp = JNull

\* C10 amended: for a text that is a JSON object inside prose with no "{"
\* before the object and no "}" after it, the interpreter returns that
\* object's reviews member when it is truthy and the empty list otherwise.
\* For a text without braces: null when the text is not JSON or is the JSON
\* null, and the empty list when the text is blank or is any other JSON
\* value; a text that is not JSON contributes no comment.
C10_WrappedObjectExtracted ==
    ipc \in {"interpreted", "mapped"} =>
        /\ ( /\ sample.kind = "wrapped"
             /\ ~HasChar(sample.pre, "{")
             /\ ~HasChar(sample.post, "}") )
           => interp = ReviewsOf(sample.value)
        /\ ( /\ sample.kind = "plain"
             /\ ~HasChar(sample.pre, "{")
             /\ ~HasChar(sample.pre, "}") )
           => interp = IF Trim(sample.pre) = <<>> THEN JArr(<<>>)
                       ELSE IF sample.value \in {JUndefined, JNull} THEN JNull
                       ELSE JArr(<<>>)
        /\ ( /\ ipc = "mapped"
             /\ sample.kind = "plain"
             /\ Trim(sample.pre) # <<>>
             /\ sample.value = JUndefined )
           => mapped = NoMapped

\* The text Here you go:\n{"reviews":[]}\nThanks interpreted as the empty
\* list.
C10_Witness ==
    /\ ipc = "interpreted"
    /\ sample.kind = "wrapped"
    /\ SampleText(sample) = TextWrapped
    /\ interp = JArr(<<>>)

====
